---------------------------- MODULE Spec2Model ----------------------------
(***************************************************************************)
(* PCI complaints dashboard: the record normalizer (lib/data-loader.ts),   *)
(* the initial load (app/page.tsx, loadData) and the client-side filter    *)
(* pipeline with its memoized derived views (app/page.tsx, Dashboard).     *)
(*                                                                         *)
(* JavaScript values are modelled as follows.  A string that the code only *)
(* compares or tests for truthiness is a TLA+ string; the absent value     *)
(* (undefined) of such a field is the marker Undefined.  A string the code *)
(* scans (ReportName) is a sequence of one-character strings, and its      *)
(* absent value is UndefinedChars.  A nullable object is a sequence of     *)
(* length at most one (None / Some).                                       *)
(***************************************************************************)
EXTENDS Integers, Sequences, FiniteSets, TLC

VARIABLES
    \* ---- network (the three requests of one page load)
    byResp,               \* GET /complaints/list?table=by
    againstResp,          \* GET /complaints/list?table=against
    filtersResp,          \* GET /complaints/filters
    requests,             \* the fetch calls of the page load, with their cache option
    loadPromise,          \* state of Promise.all([fetchAllComplaints(), getFilters()])
    currentYear,          \* what new Date().getFullYear() returns
    \* ---- React state of Dashboard
    allData,
    filters,
    isLoading,
    error,
    selectedYears,
    selectedStates,
    selectedTypes,
    selectedDirection,
    selectedAffiliations,
    selectedDecisions,
    \* ---- useMemo cells of Dashboard: the value and the dependencies it was computed from
    directionFilteredData,
    directionFilteredDeps,
    filteredData,
    filteredDeps,
    stateMapData,
    stateMapDeps,
    statistics,
    statisticsDeps,
    \* ---- the analysis tabs of Dashboard
    activeView,           \* useState("targets")
    guardDeps,            \* the dependencies the threats-guard effect last ran with
    \* ---- harness of the normalizer, a pure function: input, table, output
    complaint,
    table,
    transformed,
    \* ---- harness of the target label: the label of the normalized record
    label,
    \* ---- harness of the analysis components: the props and the memo values
    analysisData,
    analysisDirection,
    analyses,
    \* ---- harness of the filter panel: the working set, the direction and the
    \* filter options it is rendered from, and its option lists
    panelInput,
    panel,
    \* ---- useIndiaGeoJSON: localStorage, the hook's state and loadData's position
    storage,              \* localStorage[CACHE_KEY]: None, or the text stored
    quotaExceeded,        \* localStorage.setItem throws in this browser
    cached,               \* what localStorage.getItem(CACHE_KEY) returned to loadData
    geoData,
    geoLoading,
    geoError,
    geoPc,                \* "mounted", "fetching", "parsing", "done"
    geoFetched,           \* fetch(GEOJSON_URL) was called by this mount
    geoBody,              \* the body of the response, while response.json() is awaited
    geoWriteFailed        \* localStorage.setItem threw in this mount

netVars  == <<byResp, againstResp, filtersResp, requests, loadPromise, currentYear>>
loadVars == <<allData, filters, isLoading, error>>
selVars  == <<selectedYears, selectedStates, selectedTypes, selectedDirection,
              selectedAffiliations, selectedDecisions>>
memoVars == <<directionFilteredData, directionFilteredDeps, filteredData, filteredDeps,
              stateMapData, stateMapDeps, statistics, statisticsDeps>>
normVars == <<complaint, table, transformed>>
analysisVars == <<analysisData, analysisDirection, analyses>>
tabVars  == <<activeView, guardDeps>>
panelVars == <<panelInput, panel>>
geoVars == <<storage, quotaExceeded, cached, geoData, geoLoading, geoError, geoPc, geoFetched, geoBody,
             geoWriteFailed>>
widgetVars == <<panelVars, geoVars>>
\* what the load and the filter handlers leave alone
pureVars == <<normVars, label, analysisVars, tabVars, widgetVars>>
vars     == <<netVars, loadVars, selVars, memoVars, pureVars>>

--------------------------------------------------------------------------
(* Bounds *)

\* longest ReportName the normalizer harness scans
MaxNameLen == 5
\* most records in one /complaints/list response
MaxRows == 2

--------------------------------------------------------------------------
(* JavaScript values *)

Undefined      == "<undefined>"
UndefinedChars == <<Undefined>>
None           == <<>>
Some(x)        == <<x>>

\* a || b on strings: undefined and "" are falsy
Falsy(v)  == v = Undefined \/ v = ""
\* variant: a ?? b, which keeps the empty string
OrNullish(a, b) == IF a = Undefined THEN b ELSE a
Or(a, b)  == IF Falsy(a) THEN b ELSE a
\* the same on scanned strings
FalsyChars(s) == s = UndefinedChars \/ s = <<>>
OrChars(a, b) == IF FalsyChars(a) THEN b ELSE a
\* `${v}` in a template literal
ToText(v) == IF v = Undefined THEN "undefined" ELSE v

Digits == {"0", "1", "2", "3", "4", "5", "6", "7", "8", "9"}
DigitValue(c) ==
    CASE c = "0" -> 0 [] c = "1" -> 1 [] c = "2" -> 2 [] c = "3" -> 3 [] c = "4" -> 4
      [] c = "5" -> 5 [] c = "6" -> 6 [] c = "7" -> 7 [] c = "8" -> 8 [] c = "9" -> 9

\* s.match(/(\d{4})/): the regex engine tries each start position from the left
\* and returns the first at which four digits follow; 0 stands for null.
RECURSIVE MatchFrom(_, _)
MatchFrom(s, i) ==
    IF i + 3 > Len(s) THEN 0
    ELSE IF \A k \in 0..3 : s[i + k] \in Digits THEN i
    ELSE MatchFrom(s, i + 1)

\* variant: the last match instead of the first
RECURSIVE MatchBack(_, _)
MatchBack(s, i) ==
    IF i < 1 THEN 0
    ELSE IF \A k \in 0..3 : s[i + k] \in Digits THEN i
    ELSE MatchBack(s, i - 1)

YearMatchLast(s) == IF s = UndefinedChars THEN 0 ELSE MatchBack(s, Len(s) - 3)

\* complaint.ReportName?.match(/(\d{4})/)
YearMatch(s) == IF s = UndefinedChars THEN 0 ELSE MatchFrom(s, 1)

\* parseInt of a string of decimal digits
RECURSIVE ParseInt(_)
ParseInt(s) ==
    IF s = <<>> THEN 0
    ELSE 10 * ParseInt(SubSeq(s, 1, Len(s) - 1)) + DigitValue(s[Len(s)])

--------------------------------------------------------------------------
(* Record normalizer: lib/data-loader.ts *)

\* the string fields of a backend record the normalizer reads (ReportName apart)
RawFields == {"Complainant", "Against", "Complaint", "ComplaintType", "Decision", "Date",
              "State", "Locations_Mapped", "c_name_resolved", "a_name_resolved",
              "c_aff_resolved", "a_aff_resolved", "ComplaintType_Normalized",
              "Decision_Parent", "Decision_Specific", "Complainant_Category",
              "Complainant_Occupation", "Accused_Category", "Accused_Occupation", "level"}

\* the year taken from ReportName, or the current calendar year
ExtractYear(c, now) ==
    LET yearMatch == YearMatch(c.ReportName)
    IN  IF yearMatch # 0 THEN ParseInt(SubSeq(c.ReportName, yearMatch, yearMatch + 3))
        ELSE now

\* variant: direction read from the record instead of the table
DirectionOfContent(c, tbl) == IF Falsy(c.Complainant) THEN "against_press" ELSE "by_press"

DirectionOf(c, tbl) == IF tbl = "by" THEN "by_press" ELSE "against_press"

\* transformComplaint(complaint, table); rnd is Math.random().toString(36).substr(2, 9)
transformComplaint(c, tbl, now, rnd) ==
    LET year == ExtractYear(c, now)
    IN  [ id                      |-> <<tbl, ToText(c.State), year, rnd>>,
          complainant             |-> Or(c.Complainant, "Unknown"),
          against                 |-> Or(c.Against, "Unknown"),
          complaint               |-> Or(c.Complaint, ""),
          complaintType           |-> Or(c.ComplaintType, "Unknown"),
          decision                |-> Or(c.Decision, "Pending"),
          date                    |-> Or(c.Date, ""),
          year                    |-> year,
          state                   |-> Or(c.State, "Unknown"),
          reportName              |-> OrChars(c.ReportName, <<>>),
          locationsMApped         |-> Or(c.Locations_Mapped, Or(c.State, "")),
          complainantNameResolved |-> Or(c.c_name_resolved, Or(c.Complainant, "")),
          accusedNameResolved     |-> Or(c.a_name_resolved, Or(c.Against, "")),
          complainantAffiliation  |-> Or(c.c_aff_resolved, "Unknown"),
          accusedAffiliation      |-> Or(c.a_aff_resolved, "Unknown"),
          complaintDirection      |-> DirectionOf(c, tbl),
          gender                  |-> "unknown",
          complaintTypeNormalized |-> Or(c.ComplaintType_Normalized, Or(c.ComplaintType, "Unknown")),
          decisionParent          |-> Or(c.Decision_Parent, "Pending"),
          decisionSpecific        |-> Or(c.Decision_Specific, Or(c.Decision, "Pending")),
          complainantCategory     |-> Or(c.Complainant_Category, "Unknown"),
          complainantOccupation   |-> Or(c.Complainant_Occupation, "Unknown"),
          accusedCategory         |-> Or(c.Accused_Category, "Unknown"),
          accusedOccupation       |-> Or(c.Accused_Occupation, "Unknown"),
          level                   |-> Or(c.level, "Unknown") ]

\* the fields of a canonical complaint that hold plain strings
StringFields == {"complainant", "against", "complaint", "complaintType", "decision", "date",
                 "state", "locationsMApped", "complainantNameResolved", "accusedNameResolved",
                 "complainantAffiliation", "accusedAffiliation", "complaintDirection", "gender",
                 "complaintTypeNormalized", "decisionParent", "decisionSpecific",
                 "complainantCategory", "complainantOccupation", "accusedCategory",
                 "accusedOccupation", "level"}

--------------------------------------------------------------------------
(* Inputs: what the backend may answer *)

AbsentRecord == [f \in RawFields |-> Undefined] @@ [ReportName |-> UndefinedChars]

\* backend records a /complaints/list response is drawn from, per table; the
\* record with every field absent is served by both
RawPool(tbl) ==
    IF tbl = "by"
    THEN { [ State |-> "Delhi", ReportName |-> <<"R", "2", "0", "2", "0">>,
             Complainant |-> "Editor", Against |-> "Ram Singh",
             ComplaintType |-> "Defamation", Decision |-> "Upheld",
             Decision_Parent |-> "Upheld", c_aff_resolved |-> "Times Group" ] @@ AbsentRecord,
           AbsentRecord }
    ELSE { [ State |-> "Kerala", ReportName |-> <<"2", "0", "2", "2">>,
             Complainant |-> "", Against |-> "Editor",
             Decision |-> "", Decision_Parent |-> "Closed",
             a_aff_resolved |-> "Times Group" ] @@ AbsentRecord,
           AbsentRecord }

RECURSIVE SeqsUpTo(_, _)
SeqsUpTo(S, n) ==
    IF n = 0 THEN {<<>>}
    ELSE LET shorter == SeqsUpTo(S, n - 1)
         IN  shorter \cup {Append(q, x) : q \in shorter, x \in S}

\* bodies of a /complaints/list response: { data: [...] }
ListBodies(tbl) == SeqsUpTo(RawPool(tbl), MaxRows)

\* bodies of the /complaints/filters response
FilterBodies ==
    { [ years           |-> <<2020, 2022>>,
        states          |-> <<"Delhi", "Kerala">>,
        complaint_types |-> <<"Defamation">>,
        affiliations    |-> <<"Times Group">>,
        decisions       |-> <<"Upheld">> ] }

\* state names of the map geometry
MapStateNames == {"Delhi", "Kerala"}

\* values Math.random().toString(36).substr(2, 9) is drawn from: by the
\* normalizer on its own, and by a page load
RandomSuffixes == {"k3x9", "p7q2"}
LoadSuffixes   == {"k3x9"}

\* values new Date().getFullYear() is drawn from
ClockYears == {2026}

Pending == [kind |-> "pending", body |-> <<>>]
ListOutcomes(tbl) ==
    {[kind |-> "ok", body |-> b] : b \in ListBodies(tbl)}
      \cup {[kind |-> k, body |-> <<>>] : k \in {"bad_status", "net_error"}}
FiltersOutcomes ==
    {[kind |-> "ok", body |-> Some(b)] : b \in FilterBodies}
      \cup {[kind |-> k, body |-> <<>>] : k \in {"bad_status", "net_error"}}

--------------------------------------------------------------------------
(* Fetching: lib/data-loader.ts and lib/api.ts *)

Includes(arr, x) == \E i \in DOMAIN arr : arr[i] = x

\* byData.data.map((c) => transformComplaint(c, tbl)); rnds[i] is the i-th random draw
MapTransform(rows, tbl, now, rnds, offset) ==
    [i \in 1..Len(rows) |-> transformComplaint(rows[i], tbl, now, rnds[offset + i])]

\* variant: the table whose request succeeded is kept when the other fails
fetchAllComplaintsPartial(by, ag, now, rnds) ==
    IF by.kind = "pending" \/ ag.kind = "pending"
        THEN [settled |-> FALSE, value |-> <<>>]
    ELSE [settled |-> TRUE,
          value   |-> (IF by.kind = "ok" THEN MapTransform(by.body, "by", now, rnds, 0) ELSE <<>>)
                      \o (IF ag.kind = "ok"
                              THEN MapTransform(ag.body, "against", now, rnds, Len(by.body))
                              ELSE <<>>)]

\* fetchAllComplaints(): Promise.all of the two fetches rejects with the first
\* network error; a response that is not ok throws once both have arrived; every
\* failure is caught and yields [].  The promise never rejects.
fetchAllComplaints(by, ag, now, rnds) ==
    IF by.kind = "net_error" \/ ag.kind = "net_error"
        THEN [settled |-> TRUE, value |-> <<>>]
    ELSE IF by.kind = "pending" \/ ag.kind = "pending"
        THEN [settled |-> FALSE, value |-> <<>>]
    ELSE IF by.kind # "ok" \/ ag.kind # "ok"
        THEN [settled |-> TRUE, value |-> <<>>]
    ELSE [settled |-> TRUE,
          value   |-> MapTransform(by.body, "by", now, rnds, 0)
                      \o MapTransform(ag.body, "against", now, rnds, Len(by.body))]

\* the fetch calls one page load makes: fetchAllComplaints passes
\* { cache: 'no-store' } to both of its calls, getFilters passes no options, and
\* the cache mode of a request made without options is "default"
IssuedRequests ==
    { [url |-> "/complaints/list?table=by",      cache |-> "no-store"],
      [url |-> "/complaints/list?table=against", cache |-> "no-store"],
      [url |-> "/complaints/filters",            cache |-> "default"] }

\* getFilters(): rejects on a network error and on a status that is not ok
getFilters(fr) ==
    CASE fr.kind = "pending"    -> [state |-> "pending",   value |-> None, reason |-> ""]
      [] fr.kind = "net_error"  -> [state |-> "rejected",  value |-> None, reason |-> "Failed to fetch"]
      [] fr.kind = "bad_status" -> [state |-> "rejected",  value |-> None, reason |-> "Failed to fetch filters"]
      [] fr.kind = "ok"         -> [state |-> "fulfilled", value |-> fr.body, reason |-> ""]

\* Promise.all([fetchAllComplaints(), getFilters()]): rejected as soon as one
\* member rejects, fulfilled when both are
JoinState(fa, gf) ==
    IF gf.state = "rejected" THEN "rejected"
    ELSE IF fa.settled /\ gf.state = "fulfilled" THEN "fulfilled"
    ELSE "pending"

--------------------------------------------------------------------------
(* Derived views of Dashboard: app/page.tsx *)

\* variant: a record must match the selected affiliations on both parties
FilterPassesBothAffiliations(item, years, states, types, direction, affiliations, decisions) ==
    IF Len(years) > 0 /\ ~Includes(years, item.year) THEN FALSE
    ELSE IF Len(states) > 0 /\ ~Includes(states, item.state) THEN FALSE
    ELSE IF Len(types) > 0 /\ ~Includes(types, item.complaintType) THEN FALSE
    ELSE IF direction # "all" /\ item.complaintDirection # direction THEN FALSE
    ELSE IF Len(affiliations) > 0
            /\ ~(Includes(affiliations, item.complainantAffiliation)
                 /\ Includes(affiliations, item.accusedAffiliation)) THEN FALSE
    ELSE IF Len(decisions) > 0 /\ ~Includes(decisions, item.decision) THEN FALSE
    ELSE TRUE

\* variant: the years test reads length >= 0, so an empty selection rejects
FilterPassesYearsAlways(item, years, states, types, direction, affiliations, decisions) ==
    IF Len(years) >= 0 /\ ~Includes(years, item.year) THEN FALSE
    ELSE IF Len(states) > 0 /\ ~Includes(states, item.state) THEN FALSE
    ELSE IF Len(types) > 0 /\ ~Includes(types, item.complaintType) THEN FALSE
    ELSE IF direction # "all" /\ item.complaintDirection # direction THEN FALSE
    ELSE IF Len(affiliations) > 0
            /\ ~(Includes(affiliations, item.complainantAffiliation)
                 \/ Includes(affiliations, item.accusedAffiliation)) THEN FALSE
    ELSE IF Len(decisions) > 0 /\ ~Includes(decisions, item.decision) THEN FALSE
    ELSE TRUE

\* variant: the direction test is missing
FilterPassesAnyDirection(item, years, states, types, direction, affiliations, decisions) ==
    IF Len(years) > 0 /\ ~Includes(years, item.year) THEN FALSE
    ELSE IF Len(states) > 0 /\ ~Includes(states, item.state) THEN FALSE
    ELSE IF Len(types) > 0 /\ ~Includes(types, item.complaintType) THEN FALSE
    ELSE IF Len(affiliations) > 0
            /\ ~(Includes(affiliations, item.complainantAffiliation)
                 \/ Includes(affiliations, item.accusedAffiliation)) THEN FALSE
    ELSE IF Len(decisions) > 0 /\ ~Includes(decisions, item.decision) THEN FALSE
    ELSE TRUE

\* the callback of allData.filter(...) in filteredData: one early return per dimension
FilterPasses(item, years, states, types, direction, affiliations, decisions) ==
    IF Len(years) > 0 /\ ~Includes(years, item.year) THEN FALSE
    ELSE IF Len(states) > 0 /\ ~Includes(states, item.state) THEN FALSE
    ELSE IF Len(types) > 0 /\ ~Includes(types, item.complaintType) THEN FALSE
    ELSE IF direction # "all" /\ item.complaintDirection # direction THEN FALSE
    ELSE IF Len(affiliations) > 0
            /\ ~(Includes(affiliations, item.complainantAffiliation)
                 \/ Includes(affiliations, item.accusedAffiliation)) THEN FALSE
    ELSE IF Len(decisions) > 0 /\ ~Includes(decisions, item.decision) THEN FALSE
    ELSE TRUE

\* the body of the filteredData memo
FilteredDataOf(data, years, states, types, direction, affiliations, decisions) ==
    SelectSeq(data, LAMBDA item :
        FilterPasses(item, years, states, types, direction, affiliations, decisions))

\* variant: selectedDecisions is missing from the dependency list
FilteredDepsNoDecisions(data, years, states, types, direction, affiliations, decisions) ==
    <<data, years, states, types, direction, affiliations>>

\* the dependency list of the filteredData memo
FilteredDepsOf(data, years, states, types, direction, affiliations, decisions) ==
    <<data, years, states, types, direction, affiliations, decisions>>

\* the body of the directionFilteredData memo
DirectionFilteredDataOf(data, direction) ==
    IF direction = "all" THEN data
    ELSE SelectSeq(data, LAMBDA d : d.complaintDirection = direction)

\* counts.set(d.state, current) on a Map kept in insertion order
MapEntryAdd(counts, d) ==
    LET isBy == d.complaintDirection = "by_press"
    IN  IF \E i \in DOMAIN counts : counts[i].state = d.state
        THEN [i \in DOMAIN counts |->
                 IF counts[i].state = d.state
                 THEN [ state        |-> d.state,
                        count        |-> counts[i].count + 1,
                        byPress      |-> counts[i].byPress + (IF isBy THEN 1 ELSE 0),
                        againstPress |-> counts[i].againstPress + (IF isBy THEN 0 ELSE 1) ]
                 ELSE counts[i]]
        ELSE Append(counts, [ state        |-> d.state,
                              count        |-> 1,
                              byPress      |-> IF isBy THEN 1 ELSE 0,
                              againstPress |-> IF isBy THEN 0 ELSE 1 ])

\* the body of the stateMapData memo: filteredData.forEach over the first n records
RECURSIVE StateMapUpTo(_, _)
StateMapUpTo(data, n) ==
    IF n = 0 THEN <<>> ELSE MapEntryAdd(StateMapUpTo(data, n - 1), data[n])

StateMapDataOf(data) == StateMapUpTo(data, Len(data))

\* filteredData.filter((d) => d.complaintDirection === dir).length
CountDirection(data, dir) ==
    Cardinality({i \in DOMAIN data : data[i].complaintDirection = dir})

\* filteredData.filter((d) => d.decisionParent === parent).length
CountDecisionParent(data, parent) ==
    Cardinality({i \in DOMAIN data : data[i].decisionParent = parent})

\* decimal digits of a natural number, as a string of characters
RECURSIVE NatToChars(_)
NatToChars(n) ==
    LET digit == CHOOSE c \in Digits : DigitValue(c) = n % 10
    IN  IF n < 10 THEN <<digit>> ELSE Append(NatToChars(n \div 10), digit)

\* ((num / den) * 100).toFixed(1): the nearest tenth, the larger one on a tie
ToFixed1(num, den) ==
    LET tenths == (2000 * num + den) \div (2 * den)
    IN  NatToChars(tenths \div 10) \o <<".">> \o NatToChars(tenths % 10)

\* variant: the rate is computed without the guard on an empty set, and
\* (0 / 0 * 100).toFixed(1) is "NaN"
StatisticsOfUnguarded(data) ==
    LET upheld == CountDecisionParent(data, "Upheld")
    IN  [ total         |-> Len(data),
          byPress       |-> CountDirection(data, "by_press"),
          againstPress  |-> CountDirection(data, "against_press"),
          upheld        |-> upheld,
          dismissed     |-> CountDecisionParent(data, "Closed"),
          upheldRate    |-> IF Len(data) > 0 THEN ToFixed1(upheld, Len(data))
                            ELSE <<"N", "a", "N">>,
          statesCovered |-> Cardinality({data[i].state : i \in DOMAIN data}),
          yearsSpanned  |-> Cardinality({data[i].year : i \in DOMAIN data}) ]

\* the body of the statistics memo
StatisticsOf(data) ==
    LET upheld == CountDecisionParent(data, "Upheld")
    IN  [ total         |-> Len(data),
          byPress       |-> CountDirection(data, "by_press"),
          againstPress  |-> CountDirection(data, "against_press"),
          upheld        |-> upheld,
          dismissed     |-> CountDecisionParent(data, "Closed"),
          upheldRate    |-> IF Len(data) > 0 THEN ToFixed1(upheld, Len(data)) ELSE <<"0">>,
          statesCovered |-> Cardinality({data[i].state : i \in DOMAIN data}),
          yearsSpanned  |-> Cardinality({data[i].year : i \in DOMAIN data}) ]

\* one render of Dashboard: each useMemo keeps its value unless a dependency changed
Render ==
    /\ directionFilteredDeps' = <<allData', selectedDirection'>>
    /\ directionFilteredData' =
           IF directionFilteredDeps' = directionFilteredDeps THEN directionFilteredData
           ELSE DirectionFilteredDataOf(allData', selectedDirection')
    /\ filteredDeps' = FilteredDepsOf(allData', selectedYears', selectedStates', selectedTypes',
                                      selectedDirection', selectedAffiliations',
                                      selectedDecisions')
    /\ filteredData' =
           IF filteredDeps' = filteredDeps THEN filteredData
           ELSE FilteredDataOf(allData', selectedYears', selectedStates', selectedTypes',
                               selectedDirection', selectedAffiliations', selectedDecisions')
    /\ stateMapDeps' = <<filteredData'>>
    /\ stateMapData' =
           IF stateMapDeps' = stateMapDeps THEN stateMapData ELSE StateMapDataOf(filteredData')
    /\ statisticsDeps' = <<filteredData'>>
    /\ statistics' =
           IF statisticsDeps' = statisticsDeps THEN statistics ELSE StatisticsOf(filteredData')

\* variant: no loading branch, the dashboard is rendered while the load is pending
ViewWithoutLoadingBranch ==
    IF error # None /\ error[1] # "" THEN "error" ELSE "dashboard"

\* which of the three return branches of Dashboard is on screen
View ==
    IF isLoading THEN "loading"
    ELSE IF error # None /\ error[1] # "" THEN "error"
    ELSE "dashboard"

\* the child components rendered in the dashboard branch that take derived data
Consumers ==
    {"ExportPanel", "StatisticsPanel", "FilterPanel", "IndiaMap", "TargetsAnalysis",
     "ComplainantsAnalysis", "AccountabilityAnalysis", "RegionalAnalysis"}
      \cup (IF selectedDirection = "by_press" THEN {"ThreatsAnalysis"} ELSE {})

\* the components on screen: the loading and the error branch return before any
\* of them is rendered
RenderedComponents == IF View = "dashboard" THEN Consumers ELSE {}

\* StatisticsPanel: the text of the "By Press" and of the "Against Press" card,
\* either "N/A" or the count
byPressDisplay ==
    IF selectedDirection = "against_press" THEN [na |-> TRUE, count |-> 0]
    ELSE [na |-> FALSE, count |-> statistics.byPress]
againstPressDisplay ==
    IF selectedDirection = "by_press" THEN [na |-> TRUE, count |-> 0]
    ELSE [na |-> FALSE, count |-> statistics.againstPress]

\* the data each of them is rendered with
DataProp(c) ==
    CASE c = "StatisticsPanel" -> statistics
      [] c = "FilterPanel"     -> directionFilteredData
      [] c = "IndiaMap"        -> stateMapData
      [] OTHER                 -> filteredData

--------------------------------------------------------------------------
(* Aggregations of the analysis components *)

\* the positions among the first n keys at which a key occurs for the first time
FirstSeen(keys, n) == {i \in 1..n : \A j \in 1..(i - 1) : keys[j] # keys[i]}

\* the k-th of them
FirstSeenAt(keys, n, k) ==
    CHOOSE i \in FirstSeen(keys, n) : Cardinality({j \in FirstSeen(keys, n) : j < i}) = k - 1

\* variant: the first record of the list is not counted
CountKeysSkipFirst(keys, n) ==
    [k \in 1..Cardinality(FirstSeen(keys, n)) |->
        [key   |-> keys[FirstSeenAt(keys, n, k)],
         count |-> Cardinality({i \in 2..n : keys[i] = keys[FirstSeenAt(keys, n, k)]})]]

\* variant: counts.set(key, 1), the running count is not read back
CountKeysOnce(keys, n) ==
    [k \in 1..Cardinality(FirstSeen(keys, n)) |->
        [key |-> keys[FirstSeenAt(keys, n, k)], count |-> 1]]

\* data.forEach((d) => counts.set(key, (counts.get(key) || 0) + 1)) over the first
\* n records, then Array.from(counts.entries()): a Map keeps its keys in the order
\* of their first insertion, and a key's count is the number of records with it
CountKeys(keys, n) ==
    [k \in 1..Cardinality(FirstSeen(keys, n)) |->
        [key   |-> keys[FirstSeenAt(keys, n, k)],
         count |-> Cardinality({i \in 1..n : keys[i] = keys[FirstSeenAt(keys, n, k)]})]]

\* the place of index i after a sort by descending weight; Array.prototype.sort is
\* stable, so equal weights keep their order
SortRank(ws, i) ==
    1 + Cardinality({j \in DOMAIN ws : ws[j] > ws[i]})
      + Cardinality({j \in DOMAIN ws : j < i /\ ws[j] = ws[i]})

\* variant: no sort, the entries stay in insertion order
SortOrderNone(ws) == [k \in DOMAIN ws |-> k]

\* .sort((a, b) => b.w - a.w): the indices in sorted order
SortOrder(ws) == [k \in DOMAIN ws |-> CHOOSE i \in DOMAIN ws : SortRank(ws, i) = k]

\* Array.from(counts.entries()).sort((a, b) => b[1] - a[1])
SortByCount(entries) ==
    LET order == SortOrder([i \in DOMAIN entries |-> entries[i].count])
    IN  [k \in DOMAIN entries |-> entries[order[k]]]

\* arr.slice(0, n)
Slice(arr, n) == SubSeq(arr, 1, IF Len(arr) < n THEN Len(arr) ELSE n)

\* rest.reduce((sum, [, c]) => sum + c, 0)
RECURSIVE SumCounts(_)
SumCounts(entries) ==
    IF entries = <<>> THEN 0 ELSE entries[1].count + SumCounts(Tail(entries))

\* TargetsAnalysis: typeDistribution
typeDistribution(data) ==
    LET sorted == SortByCount(CountKeys([i \in DOMAIN data |-> data[i].complaintTypeNormalized],
                                        Len(data)))
    IN  [k \in DOMAIN sorted |-> [type |-> sorted[k].key, count |-> sorted[k].count]]

\* ThreatsAnalysis: threatTypes
threatTypes(data) ==
    LET sorted == SortByCount(CountKeys([i \in DOMAIN data |-> data[i].complaintTypeNormalized],
                                        Len(data)))
    IN  [k \in DOMAIN sorted |-> [type |-> sorted[k].key, count |-> sorted[k].count]]

\* ComplainantsAnalysis: complainantOccupations
complainantOccupations(data) ==
    LET sorted == SortByCount(CountKeys([i \in DOMAIN data |->
                                            Or(data[i].complainantOccupation, "Unknown")],
                                        Len(data)))
    IN  [k \in DOMAIN sorted |-> [occupation |-> sorted[k].key, count |-> sorted[k].count]]

\* AccountabilityAnalysis: TOP_N of decisionCounts
TOP_N == 10

\* variant: the groups after the first TOP_N are dropped
decisionCountsNoOther(data) ==
    LET sorted == SortByCount(CountKeys([i \in DOMAIN data |->
                                            Or(data[i].decisionSpecific, "Unknown")],
                                        Len(data)))
        top    == Slice(sorted, TOP_N)
    IN  [k \in DOMAIN top |-> [decision |-> top[k].key, count |-> top[k].count]]

\* AccountabilityAnalysis: decisionCounts
decisionCounts(data) ==
    LET sorted == SortByCount(CountKeys([i \in DOMAIN data |->
                                            Or(data[i].decisionSpecific, "Unknown")],
                                        Len(data)))
        top    == Slice(sorted, TOP_N)
        rest   == SubSeq(sorted, TOP_N + 1, Len(sorted))
    IN  IF Len(sorted) <= TOP_N
        THEN [k \in DOMAIN sorted |-> [decision |-> sorted[k].key, count |-> sorted[k].count]]
        ELSE [k \in DOMAIN top |-> [decision |-> top[k].key, count |-> top[k].count]]
               \o <<[decision |-> "All Other Decisions", count |-> SumCounts(rest)]>>

\* the inner keys of the records whose outer key is key, in record order
InnersOf(outers, inners, n, key) ==
    LET pairs == SelectSeq([i \in 1..n |-> <<outers[i], inners[i]>>], LAMBDA p : p[1] = key)
    IN  [i \in DOMAIN pairs |-> pairs[i][2]]

\* data.forEach(... matrix[outer][inner] = (matrix[outer][inner] || 0) + 1) over
\* the first n records, then Object.entries(matrix): an object keeps its keys in
\* the order of their first assignment, on both levels
MatrixUpTo(outers, inners, n) ==
    [k \in 1..Cardinality(FirstSeen(outers, n)) |->
        LET sub == InnersOf(outers, inners, n, outers[FirstSeenAt(outers, n, k)])
        IN  [key |-> outers[FirstSeenAt(outers, n, k)], decisions |-> CountKeys(sub, Len(sub))]]

\* decisions[name] || 0
CountOf(decisions, name) ==
    IF \E i \in DOMAIN decisions : decisions[i].key = name
    THEN decisions[CHOOSE i \in DOMAIN decisions : decisions[i].key = name].count
    ELSE 0

\* the outer key of decisionByCategory: level replaces the accused's category
\* when the direction is against_press
CategoryOf(d, direction) ==
    IF direction = "against_press" THEN Or(d.level, "Unknown")
    ELSE Or(d.accusedCategory, "Unknown")

\* variant: Other is the row total less the upheld count only
CategoryRowOtherWithClosed(entry) ==
    LET total  == SumCounts(entry.decisions)
        upheld == CountOf(entry.decisions, "Upheld")
    IN  [ category   |-> entry.key,
          Upheld     |-> upheld,
          Closed     |-> CountOf(entry.decisions, "Closed"),
          Other      |-> total - upheld,
          total      |-> total,
          upheldRate |-> IF total > 0 THEN ToFixed1(upheld, total) ELSE <<"0">> ]

\* the row decisionByCategory builds from one entry of the matrix
CategoryRow(entry) ==
    LET total  == SumCounts(entry.decisions)
        upheld == CountOf(entry.decisions, "Upheld")
    IN  [ category   |-> entry.key,
          Upheld     |-> upheld,
          Closed     |-> CountOf(entry.decisions, "Closed"),
          Other      |-> total - upheld - CountOf(entry.decisions, "Closed"),
          total      |-> total,
          upheldRate |-> IF total > 0 THEN ToFixed1(upheld, total) ELSE <<"0">> ]

\* AccountabilityAnalysis: decisionByCategory
decisionByCategory(data, direction) ==
    LET matrix == MatrixUpTo([i \in DOMAIN data |-> CategoryOf(data[i], direction)],
                             [i \in DOMAIN data |-> data[i].decisionParent], Len(data))
        rows   == [i \in DOMAIN matrix |-> CategoryRow(matrix[i])]
        order  == SortOrder([i \in DOMAIN rows |-> rows[i].total])
    IN  [k \in DOMAIN rows |-> rows[order[k]]]

\* the row decisionByType builds from one entry of the matrix
TypeRow(entry) ==
    LET total  == SumCounts(entry.decisions)
        upheld == CountOf(entry.decisions, "Upheld")
    IN  [ type       |-> entry.key,
          Upheld     |-> upheld,
          Closed     |-> CountOf(entry.decisions, "Closed"),
          Disposed   |-> CountOf(entry.decisions, "Disposed"),
          Pending    |-> CountOf(entry.decisions, "Pending"),
          total      |-> total,
          upheldRate |-> IF total > 0 THEN ToFixed1(upheld, total) ELSE <<"0">> ]

\* AccountabilityAnalysis: decisionByType
decisionByType(data) ==
    LET matrix == MatrixUpTo([i \in DOMAIN data |-> Or(data[i].complaintTypeNormalized, "Unknown")],
                             [i \in DOMAIN data |-> data[i].decisionParent], Len(data))
        rows   == [i \in DOMAIN matrix |-> TypeRow(matrix[i])]
        order  == SortOrder([i \in DOMAIN rows |-> rows[i].total])
    IN  [k \in DOMAIN rows |-> rows[order[k]]]

\* parseFloat of a rate string, in tenths: "33.3" is 333, "0" is 0
ParseFloatTenths(s) ==
    IF \E i \in DOMAIN s : s[i] = "."
    THEN LET dot == CHOOSE i \in DOMAIN s : s[i] = "."
         IN  10 * ParseInt(SubSeq(s, 1, dot - 1)) + ParseInt(SubSeq(s, dot + 1, Len(s)))
    ELSE 10 * ParseInt(s)

\* the threshold and the slice of upheldRateByCategory
MIN_TOTAL == 20
RATE_ROWS == 8

\* variant: the threshold test reads total > 0
upheldRateByCategoryAnyTotal(rows) ==
    LET kept  == SelectSeq(rows, LAMBDA d : d.total > 0)
        order == SortOrder([i \in DOMAIN kept |-> ParseFloatTenths(kept[i].upheldRate)])
    IN  Slice([k \in DOMAIN kept |-> kept[order[k]]], RATE_ROWS)

\* AccountabilityAnalysis: upheldRateByCategory, from the rows of decisionByCategory
upheldRateByCategory(rows) ==
    LET kept  == SelectSeq(rows, LAMBDA d : d.total >= MIN_TOTAL)
        order == SortOrder([i \in DOMAIN kept |-> ParseFloatTenths(kept[i].upheldRate)])
    IN  Slice([k \in DOMAIN kept |-> kept[order[k]]], RATE_ROWS)

--------------------------------------------------------------------------
(* Target labels: components/targets-analysis.tsx *)

\* the characters of the strings the model's records hold in against and
\* accusedAffiliation
NameChars ==
    ("" :> <<>>) @@
    (" " :> <<" ">>) @@
    ("Unknown" :> <<"U", "n", "k", "n", "o", "w", "n">>) @@
    ("None" :> <<"N", "o", "n", "e">>) @@
    ("x" :> <<"x">>) @@
    ("Editor" :> <<"E", "d", "i", "t", "o", "r">>) @@
    ("EDITOR " :> <<"E", "D", "I", "T", "O", "R", " ">>) @@
    ("Ram Singh" :> <<"R", "a", "m", " ", "S", "i", "n", "g", "h">>) @@
    ("times group" :> <<"t", "i", "m", "e", "s", " ", "g", "r", "o", "u", "p">>) @@
    ("Times Group" :> <<"T", "i", "m", "e", "s", " ", "G", "r", "o", "u", "p">>) @@
    ("Police" :> <<"P", "o", "l", "i", "c", "e">>) @@
    ("Dainik Jagran" :> <<"D", "a", "i", "n", "i", "k", " ", "J", "a", "g", "r", "a", "n">>)

\* a string field of a canonical complaint as the characters the label code scans
Chars(v) == IF v = Undefined THEN UndefinedChars ELSE NameChars[v]

\* String.prototype.toLowerCase on one character
LowerChar(c) ==
    CASE c = "A" -> "a"
      [] c = "B" -> "b"
      [] c = "C" -> "c"
      [] c = "D" -> "d"
      [] c = "E" -> "e"
      [] c = "F" -> "f"
      [] c = "G" -> "g"
      [] c = "H" -> "h"
      [] c = "I" -> "i"
      [] c = "J" -> "j"
      [] c = "K" -> "k"
      [] c = "L" -> "l"
      [] c = "M" -> "m"
      [] c = "N" -> "n"
      [] c = "O" -> "o"
      [] c = "P" -> "p"
      [] c = "Q" -> "q"
      [] c = "R" -> "r"
      [] c = "S" -> "s"
      [] c = "T" -> "t"
      [] c = "U" -> "u"
      [] c = "V" -> "v"
      [] c = "W" -> "w"
      [] c = "X" -> "x"
      [] c = "Y" -> "y"
      [] c = "Z" -> "z"
      [] OTHER -> c

\* s.toLowerCase()
ToLowerCase(s) == [i \in DOMAIN s |-> LowerChar(s[i])]

\* s.trim(): white space is removed from both ends
RECURSIVE TrimStart(_)
TrimStart(s) == IF s # <<>> /\ Head(s) = " " THEN TrimStart(Tail(s)) ELSE s

RECURSIVE TrimEnd(_)
TrimEnd(s) ==
    IF s # <<>> /\ s[Len(s)] = " " THEN TrimEnd(SubSeq(s, 1, Len(s) - 1)) ELSE s

\* v?.trim()
Trim(s) == IF s = UndefinedChars THEN UndefinedChars ELSE TrimEnd(TrimStart(s))

genericRoles ==
    { <<"e", "d", "i", "t", "o", "r">>,
      <<"t", "h", "e", " ", "e", "d", "i", "t", "o", "r">>,
      <<"c", "h", "i", "e", "f", " ", "e", "d", "i", "t", "o", "r">>,
      <<"r", "e", "s", "i", "d", "e", "n", "t", " ", "e", "d", "i", "t", "o", "r">>,
      <<"e", "x", "e", "c", "u", "t", "i", "v", "e", " ", "e", "d", "i", "t", "o", "r">>,
      <<"r", "e", "p", "o", "r", "t", "e", "r">>,
      <<"c", "o", "r", "r", "e", "s", "p", "o", "n", "d", "e", "n", "t">>,
      <<"p", "u", "b", "l", "i", "s", "h", "e", "r">>,
      <<"p", "r", "i", "n", "t", "e", "r">>,
      <<"o", "w", "n", "e", "r">>,
      <<"m", "a", "n", "a", "g", "e", "r">>,
      <<"e", "d", "i", "t", "o", "r", "-", "i", "n", "-", "c", "h", "i", "e", "f">>,
      <<"s", "u", "b", "-", "e", "d", "i", "t", "o", "r">>,
      <<"n", "e", "w", "s", " ", "e", "d", "i", "t", "o", "r">>,
      <<"g", "r", "o", "u", "p", " ", "e", "d", "i", "t", "o", "r">>,
      <<"m", "a", "n", "a", "g", "i", "n", "g", " ", "e", "d", "i", "t", "o", "r">> }

UnknownChars == <<"U", "n", "k", "n", "o", "w", "n">>
NoneChars    == <<"N", "o", "n", "e">>
UnspecifiedSuffix ==
    <<" ", "(", "U", "n", "s", "p", "e", "c", "i", "f", "i", "e", "d", " ", "M", "e", "d", "i", "a", " ", "O", "u", "t", "l", "e", "t", ")">>
\* the text between ${aff} and ${name} in the template of line 94: a space, the
\* three characters U+00E2 U+20AC U+201D (the UTF-8 bytes of an em dash read as
\* Windows-1252, which is what the source file holds), a space
DashSeparator == <<" ", "U+00E2", "U+20AC", "U+201D", " ">>

\* getTargetDisplayName(d)
getTargetDisplayName(d) ==
    LET aff  == Trim(Chars(d.accusedAffiliation))
        name == Trim(Chars(d.against))
    IN  IF FalsyChars(aff) \/ aff = UnknownChars \/ aff = NoneChars
        THEN LET lowerName == IF name = UndefinedChars THEN <<>> ELSE ToLowerCase(name)
             IN  IF lowerName \in genericRoles THEN name \o UnspecifiedSuffix
                 ELSE OrChars(name, UnknownChars)
        ELSE IF FalsyChars(name) THEN aff
        ELSE IF ToLowerCase(name) \in genericRoles THEN aff
        ELSE IF ToLowerCase(name) = ToLowerCase(aff) THEN aff
        ELSE aff \o DashSeparator \o name

\* the slice of topTargets
TOP_TARGETS == 15

\* TargetsAnalysis: topTargets
topTargets(data) ==
    LET sorted == Slice(SortByCount(CountKeys([i \in DOMAIN data |-> getTargetDisplayName(data[i])],
                                              Len(data))), TOP_TARGETS)
    IN  [k \in DOMAIN sorted |->
            [name |-> sorted[k].key, fullName |-> sorted[k].key, count |-> sorted[k].count]]

--------------------------------------------------------------------------
(* Page load: the mount effect of Dashboard and loadData *)

NoDataMessage == "No data received from API. Make sure the Backend is connected"

\* variant: isLoading is cleared at the end of the try block only
IsLoadingAfterTryOnly(join) == join = "rejected"

\* finally { setIsLoading(false) }
IsLoadingAfter(join) == FALSE

\* the continuation of loadData once the joined promise settles, followed by the
\* render it causes; by, ag and fr are the responses as they now stand
loadData(by, ag, fr, rnds) ==
    LET fa   == fetchAllComplaints(by, ag, currentYear, rnds)
        gf   == getFilters(fr)
        join == JoinState(fa, gf)
    IN  /\ byResp' = by
        /\ againstResp' = ag
        /\ filtersResp' = fr
        /\ UNCHANGED <<requests, currentYear, selVars, pureVars>>
        /\ IF loadPromise = "pending" /\ join = "fulfilled"
           THEN /\ loadPromise' = join
                /\ error' = IF Len(fa.value) = 0 THEN Some(NoDataMessage) ELSE error
                /\ allData' = fa.value
                /\ filters' = gf.value
                /\ isLoading' = IsLoadingAfter(join)
           ELSE IF loadPromise = "pending" /\ join = "rejected"
           THEN /\ loadPromise' = join
                /\ error' = Some(gf.reason)
                /\ isLoading' = IsLoadingAfter(join)
                /\ UNCHANGED <<allData, filters>>
           ELSE UNCHANGED <<loadPromise, loadVars>>
        /\ Render

RandomDraws(by, ag) == [1..(Len(by.body) + Len(ag.body)) -> LoadSuffixes]

\* the response to /complaints/list?table=by arrives
RespondBy ==
    /\ byResp.kind = "pending"
    /\ \E o \in ListOutcomes("by") : \E rnds \in RandomDraws(o, againstResp) :
           loadData(o, againstResp, filtersResp, rnds)

\* the response to /complaints/list?table=against arrives
RespondAgainst ==
    /\ againstResp.kind = "pending"
    /\ \E o \in ListOutcomes("against") : \E rnds \in RandomDraws(byResp, o) :
           loadData(byResp, o, filtersResp, rnds)

\* the response to /complaints/filters arrives
RespondFilters ==
    /\ filtersResp.kind = "pending"
    /\ \E o \in FiltersOutcomes : \E rnds \in RandomDraws(byResp, againstResp) :
           loadData(byResp, againstResp, o, rnds)

\* variant: the guard effect depends on the active view alone
GuardDepsViewOnly(direction, view) == <<view>>

\* the dependency array of the threats-guard effect
GuardDepsOf(direction, view) == <<direction, view>>

\* the tabs of a freshly mounted Dashboard, after the effects of the first render
MountedTabs(view, deps) ==
    /\ view = "targets"
    /\ deps = GuardDepsOf("all", "targets")

\* the state of a freshly mounted Dashboard whose effect has issued the requests
Mounted(by, ag, fr, promise, data, flt, loading, err, years, states, types, direction, affs, decs) ==
    /\ by = Pending /\ ag = Pending /\ fr = Pending
    /\ promise = "pending"
    /\ data = <<>>
    /\ flt = None
    /\ loading = TRUE
    /\ err = None
    /\ years = <<>> /\ states = <<>> /\ types = <<>>
    /\ direction = "all"
    /\ affs = <<>> /\ decs = <<>>

\* the first render's memo cells
MountedMemo(dfd, dfdeps, fd, fdeps, smd, smdeps, st, stdeps) ==
    /\ dfdeps = <<(<<>>), "all">>
    /\ dfd = DirectionFilteredDataOf(<<>>, "all")
    /\ fdeps = FilteredDepsOf(<<>>, <<>>, <<>>, <<>>, "all", <<>>, <<>>)
    /\ fd = FilteredDataOf(<<>>, <<>>, <<>>, <<>>, "all", <<>>, <<>>)
    /\ smdeps = <<fd>>
    /\ smd = StateMapDataOf(fd)
    /\ stdeps = <<fd>>
    /\ st = StatisticsOf(fd)

\* "Retry Connection": window.location.reload() mounts the page afresh
Reload ==
    /\ View = "error"
    /\ Mounted(byResp', againstResp', filtersResp', loadPromise', allData', filters',
               isLoading', error', selectedYears', selectedStates', selectedTypes',
               selectedDirection', selectedAffiliations', selectedDecisions')
    /\ MountedMemo(directionFilteredData', directionFilteredDeps', filteredData',
                   filteredDeps', stateMapData', stateMapDeps', statistics', statisticsDeps')
    /\ MountedTabs(activeView', guardDeps')
    /\ requests' = IssuedRequests
    /\ currentYear' \in ClockYears
    /\ UNCHANGED <<normVars, label, analysisVars, widgetVars>>

--------------------------------------------------------------------------
(* Filter operations: components/filter-panel.tsx and app/page.tsx *)

Range(arr) == {arr[i] : i \in DOMAIN arr}

\* arr.includes(x) ? arr.filter((y) => y !== x) : [...arr, x]
Toggle(arr, x) ==
    IF Includes(arr, x) THEN SelectSeq(arr, LAMBDA y : y # x) ELSE Append(arr, x)

\* the distinct values of a set of integers, largest first
RECURSIVE SortDesc(_)
SortDesc(S) ==
    IF S = {} THEN <<>>
    ELSE LET m == CHOOSE x \in S : \A y \in S : y <= x
         IN  <<m>> \o SortDesc(S \ {m})

\* years.map(([y]) => y): the backend's list, or the years of the data when filters is null
AllYears ==
    IF filters # None THEN filters[1].years
    ELSE SortDesc({directionFilteredData[i].year : i \in DOMAIN directionFilteredData})

StateOptions ==
    IF filters # None THEN Range(filters[1].states)
    ELSE {directionFilteredData[i].state : i \in DOMAIN directionFilteredData}

TypeOptions ==
    IF filters # None THEN Range(filters[1].complaint_types)
    ELSE {directionFilteredData[i].complaintType : i \in DOMAIN directionFilteredData}

\* affiliations whose lower-cased name contains one of the suspiciousKeywords
SuspiciousAffiliations == {"Delhi Police", "Information Department"}

AffiliationOptions ==
    LET list == IF filters # None THEN Range(filters[1].affiliations)
                ELSE {directionFilteredData[i].complainantAffiliation :
                          i \in DOMAIN directionFilteredData}
                     \cup {directionFilteredData[i].accusedAffiliation :
                              i \in DOMAIN directionFilteredData}
    IN  IF selectedDirection = "by_press" THEN list \ SuspiciousAffiliations ELSE list

DecisionOptions ==
    IF filters # None THEN Range(filters[1].decisions)
    ELSE {directionFilteredData[i].decision : i \in DOMAIN directionFilteredData}

\* variant: a filter change fetches the complaint lists again
FilterStepRefetch ==
    /\ View = "dashboard"
    /\ byResp' = Pending
    /\ againstResp' = Pending
    /\ loadPromise' = "pending"
    /\ allData' = <<>>
    /\ isLoading' = TRUE
    /\ UNCHANGED <<filtersResp, requests, currentYear, filters, error, pureVars>>
    /\ Render

\* a handler of the interactive dashboard leaves the load and the network alone
\* and is followed by a render
FilterStep ==
    /\ View = "dashboard"
    /\ UNCHANGED <<netVars, loadVars, pureVars>>
    /\ Render

SeqMin(arr) == CHOOSE x \in Range(arr) : \A y \in Range(arr) : x <= y
SeqMax(arr) == CHOOSE x \in Range(arr) : \A y \in Range(arr) : y <= x

\* variant: the upper thumb is ignored
SliderYearsFromMin(allYears, minVal, maxVal) ==
    LET newRange == SelectSeq(allYears, LAMBDA y : y >= minVal)
    IN  IF Len(newRange) = Len(allYears) THEN <<>> ELSE newRange

\* the value onValueChange of the years slider passes to onYearsChange
SliderYears(allYears, minVal, maxVal) ==
    LET newRange == SelectSeq(allYears, LAMBDA y : y >= minVal /\ y <= maxVal)
    IN  IF Len(newRange) = Len(allYears) THEN <<>> ELSE newRange

\* the years slider is moved to [minVal, maxVal]
YearSliderChange ==
    /\ Len(AllYears) > 0
    /\ \E minVal \in SeqMin(AllYears)..SeqMax(AllYears) :
       \E maxVal \in minVal..SeqMax(AllYears) :
           selectedYears' = SliderYears(AllYears, minVal, maxVal)
    /\ UNCHANGED <<selectedStates, selectedTypes, selectedDirection, selectedAffiliations,
                   selectedDecisions>>
    /\ FilterStep

\* the X of the years badge: onYearsChange([])
YearBadgeRemove ==
    /\ Len(selectedYears) > 0
    /\ selectedYears' = <<>>
    /\ UNCHANGED <<selectedStates, selectedTypes, selectedDirection, selectedAffiliations,
                   selectedDecisions>>
    /\ FilterStep

\* a state checkbox, or the X of a state badge
toggleState ==
    /\ \E state \in StateOptions \cup Range(selectedStates) :
           selectedStates' = Toggle(selectedStates, state)
    /\ UNCHANGED <<selectedYears, selectedTypes, selectedDirection, selectedAffiliations,
                   selectedDecisions>>
    /\ FilterStep

\* a complaint-type checkbox, or the X of a type badge
toggleType ==
    /\ \E type \in TypeOptions \cup Range(selectedTypes) :
           selectedTypes' = Toggle(selectedTypes, type)
    /\ UNCHANGED <<selectedYears, selectedStates, selectedDirection, selectedAffiliations,
                   selectedDecisions>>
    /\ FilterStep

\* an affiliation checkbox, or the X of an affiliation badge
toggleAffiliation ==
    /\ \E aff \in AffiliationOptions \cup Range(selectedAffiliations) :
           selectedAffiliations' = Toggle(selectedAffiliations, aff)
    /\ UNCHANGED <<selectedYears, selectedStates, selectedTypes, selectedDirection,
                   selectedDecisions>>
    /\ FilterStep

\* a decision checkbox, or the X of a decision badge
toggleDecision ==
    /\ \E dec \in DecisionOptions \cup Range(selectedDecisions) :
           selectedDecisions' = Toggle(selectedDecisions, dec)
    /\ UNCHANGED <<selectedYears, selectedStates, selectedTypes, selectedDirection,
                   selectedAffiliations>>
    /\ FilterStep

\* a direction button, or the X of the direction badge: onDirectionChange(dir)
DirectionChange ==
    /\ \E dir \in {"all", "by_press", "against_press"} : selectedDirection' = dir
    /\ UNCHANGED <<selectedYears, selectedStates, selectedTypes, selectedAffiliations,
                   selectedDecisions>>
    /\ FilterStep

\* variant: the direction is not reset
clearAllFiltersKeepDirection ==
    /\ Len(selectedYears) + Len(selectedStates) + Len(selectedTypes)
         + (IF selectedDirection # "all" THEN 1 ELSE 0)
         + Len(selectedAffiliations) + Len(selectedDecisions) > 0
    /\ selectedYears' = <<>>
    /\ selectedStates' = <<>>
    /\ selectedTypes' = <<>>
    /\ selectedAffiliations' = <<>>
    /\ selectedDecisions' = <<>>
    /\ UNCHANGED <<selectedDirection, netVars, loadVars, pureVars>>
    /\ View = "dashboard"
    /\ Render

\* "Clear all", shown while a filter is active
clearAllFilters ==
    /\ Len(selectedYears) + Len(selectedStates) + Len(selectedTypes)
         + (IF selectedDirection # "all" THEN 1 ELSE 0)
         + Len(selectedAffiliations) + Len(selectedDecisions) > 0
    /\ selectedYears' = <<>>
    /\ selectedStates' = <<>>
    /\ selectedTypes' = <<>>
    /\ selectedDirection' = "all"
    /\ selectedAffiliations' = <<>>
    /\ selectedDecisions' = <<>>
    /\ FilterStep

\* variant: a click toggles the clicked state and keeps the other selected states
handleStateClickToggle ==
    /\ \E state \in MapStateNames :
           selectedStates' = Toggle(selectedStates, state)
    /\ UNCHANGED <<selectedYears, selectedTypes, selectedDirection, selectedAffiliations,
                   selectedDecisions>>
    /\ FilterStep

\* selectedState={selectedStates.length === 1 ? selectedStates[0] : null}
MapSelectedState == IF Len(selectedStates) = 1 THEN Some(selectedStates[1]) ELSE None

\* a click on a state of the map or of the regional view; "" is the map's clear control
handleStateClick ==
    /\ \E state \in MapStateNames \cup {""} :
           selectedStates' = IF state = "" \/ Includes(selectedStates, state)
                             THEN <<>> ELSE <<state>>
    /\ UNCHANGED <<selectedYears, selectedTypes, selectedDirection, selectedAffiliations,
                   selectedDecisions>>
    /\ FilterStep

--------------------------------------------------------------------------
(* The dashboard *)

\* the dashboard as mounted, no request answered
DashboardIdle ==
    /\ Mounted(byResp, againstResp, filtersResp, loadPromise, allData, filters, isLoading,
               error, selectedYears, selectedStates, selectedTypes, selectedDirection,
               selectedAffiliations, selectedDecisions)
    /\ MountedMemo(directionFilteredData, directionFilteredDeps, filteredData, filteredDeps,
                   stateMapData, stateMapDeps, statistics, statisticsDeps)
    /\ MountedTabs(activeView, guardDeps)
    /\ requests = IssuedRequests
    /\ currentYear \in ClockYears

\* the filter panel has not been rendered
PanelIdle ==
    /\ panelInput = [allData |-> <<>>, filters |-> None, selectedDirection |-> "all"]
    /\ panel = None

\* texts localStorage may hold under CACHE_KEY: the empty string, a text that is
\* no JSON, and the JSON text of a value
EmptyText   == [empty |-> TRUE,  json |-> FALSE, value |-> None]
GarbageText == [empty |-> FALSE, json |-> FALSE, value |-> None]
\* JSON.stringify(v); the JSON value null is None
Stringify(v) == [empty |-> FALSE, json |-> TRUE, value |-> v]

\* the feature arrays the conversion yields: from the object 'india_telengana',
\* with state names normalized, or from the topology's first object, as they are
NamedFeatures == Some("features of india_telengana, names normalized")
FirstFeatures == Some("features of the first object")

\* a freshly mounted useIndiaGeoJSON: the useState initial values
GeoMounted(d, l, e, pc, c, f, b, w) ==
    /\ d = None /\ l = TRUE /\ e = None
    /\ pc = "mounted"
    /\ c = None /\ f = FALSE /\ b = None /\ w = FALSE

\* the map is not mounted and nothing is stored
GeoIdle ==
    /\ storage = None
    /\ quotaExceeded = FALSE
    /\ GeoMounted(geoData, geoLoading, geoError, geoPc, cached, geoFetched, geoBody,
                  geoWriteFailed)

\* the components modelled on their own are idle
WidgetsIdle == PanelIdle /\ GeoIdle

\* no analysis component has been given data
AnalysesIdle ==
    /\ analysisData = <<>>
    /\ analysisDirection = "all"
    /\ analyses = None

Init ==
    /\ DashboardIdle
    /\ complaint = AbsentRecord
    /\ table = "by"
    /\ transformed = None
    /\ label = None
    /\ AnalysesIdle
    /\ WidgetsIdle

Next ==
    \/ RespondBy
    \/ RespondAgainst
    \/ RespondFilters
    \/ Reload
    \/ YearSliderChange
    \/ YearBadgeRemove
    \/ toggleState
    \/ toggleType
    \/ toggleAffiliation
    \/ toggleDecision
    \/ DirectionChange
    \/ clearAllFilters
    \/ handleStateClick

Spec == Init /\ [][Next]_vars

--------------------------------------------------------------------------
(* The analysis tabs: the dashboard once a load has succeeded, with the tab   *)
(* list and the effect that guards the Threats tab                            *)

\* the triggers of the tab list; the Threats trigger is rendered under by_press only
TabTriggers ==
    {"targets", "complainants", "accountability", "regional"}
      \cup (IF selectedDirection = "by_press" THEN {"threats"} ELSE {})

\* the component of the tab content on screen, if any: Tabs shows the content
\* whose value is activeView, and the Threats content is rendered under by_press only
TabContent ==
    IF View # "dashboard" THEN {}
    ELSE CASE activeView = "targets"        -> {"TargetsAnalysis"}
           [] activeView = "complainants"   -> {"ComplainantsAnalysis"}
           [] activeView = "threats"        ->
                  IF selectedDirection = "by_press" THEN {"ThreatsAnalysis"} ELSE {}
           [] activeView = "accountability" -> {"AccountabilityAnalysis"}
           [] activeView = "regional"       -> {"RegionalAnalysis"}

\* the guard effect runs after a render that changed one of its dependencies
EffectDue == GuardDepsOf(selectedDirection, activeView) # guardDeps

\* useEffect(() => { if (selectedDirection !== "by_press" && activeView ===
\* "threats") setActiveView("targets") }, [selectedDirection, activeView]); the
\* render that follows setActiveView recomputes no memo
ThreatsGuardEffect ==
    /\ EffectDue
    /\ guardDeps' = GuardDepsOf(selectedDirection, activeView)
    /\ activeView' = IF selectedDirection # "by_press" /\ activeView = "threats"
                      THEN "targets" ELSE activeView
    /\ UNCHANGED <<netVars, loadVars, selVars, memoVars, normVars, label, analysisVars,
                   widgetVars>>

\* a click on a trigger of the tab list: onValueChange={setActiveView}
TabChange ==
    /\ View = "dashboard"
    /\ \E v \in TabTriggers : activeView' = v
    /\ UNCHANGED <<netVars, loadVars, selVars, memoVars, normVars, label, analysisVars,
                   widgetVars, guardDeps>>

\* the dashboard after a load that delivered one record per table and the
\* filter options
TabsInit ==
    /\ \E by \in ListOutcomes("by"), ag \in ListOutcomes("against"), fr \in FiltersOutcomes :
         /\ by.kind = "ok" /\ Len(by.body) = 1 /\ by.body[1] # AbsentRecord
         /\ ag.kind = "ok" /\ Len(ag.body) = 1 /\ ag.body[1] # AbsentRecord
         /\ fr.kind = "ok"
         /\ byResp = by /\ againstResp = ag /\ filtersResp = fr
         /\ currentYear \in ClockYears
         /\ \E rnds \in RandomDraws(by, ag) :
                allData = fetchAllComplaints(by, ag, currentYear, rnds).value
         /\ filters = getFilters(fr).value
    /\ requests = IssuedRequests
    /\ loadPromise = "fulfilled"
    /\ isLoading = FALSE
    /\ error = None
    /\ selectedYears = <<>> /\ selectedStates = <<>> /\ selectedTypes = <<>>
    /\ selectedDirection = "all"
    /\ selectedAffiliations = <<>> /\ selectedDecisions = <<>>
    /\ directionFilteredDeps = <<allData, "all">>
    /\ directionFilteredData = DirectionFilteredDataOf(allData, "all")
    /\ filteredDeps = FilteredDepsOf(allData, <<>>, <<>>, <<>>, "all", <<>>, <<>>)
    /\ filteredData = FilteredDataOf(allData, <<>>, <<>>, <<>>, "all", <<>>, <<>>)
    /\ stateMapDeps = <<filteredData>>
    /\ stateMapData = StateMapDataOf(filteredData)
    /\ statisticsDeps = <<filteredData>>
    /\ statistics = StatisticsOf(filteredData)
    /\ MountedTabs(activeView, guardDeps)
    /\ complaint = AbsentRecord
    /\ table = "by"
    /\ transformed = None
    /\ label = None
    /\ AnalysesIdle
    /\ WidgetsIdle

\* pending effects are flushed before the next event is handled
TabsNext ==
    \/ ThreatsGuardEffect
    \/ ~EffectDue /\ TabChange
    \/ ~EffectDue /\ YearSliderChange
    \/ ~EffectDue /\ YearBadgeRemove
    \/ ~EffectDue /\ toggleState
    \/ ~EffectDue /\ toggleType
    \/ ~EffectDue /\ toggleAffiliation
    \/ ~EffectDue /\ toggleDecision
    \/ ~EffectDue /\ DirectionChange
    \/ ~EffectDue /\ clearAllFilters
    \/ ~EffectDue /\ handleStateClick

TabsSpec == TabsInit /\ [][TabsNext]_vars

\* an effect that is due runs
TabsLiveSpec == TabsSpec /\ WF_vars(ThreatsGuardEffect)

--------------------------------------------------------------------------
(* The filter panel on its own: its option lists for a working set, a         *)
(* direction and the backend's filter options                                 *)

\* the option lists of FilterPanel, each option with its count.  data is the
\* panel's data prop; flt is the filters prop, which is not null when the panel
\* is rendered.  affCounts is incremented once for the complainant's and once for
\* the accused's affiliation of every record.
FilterPanelOptions(data, flt, direction) ==
    LET Count(field, x) == Cardinality({i \in DOMAIN data : data[i][field] = x})
        affCount(a)     == Count("complainantAffiliation", a) + Count("accusedAffiliation", a)
        Rows(opts, field) == [i \in DOMAIN opts |-> [key |-> opts[i], count |-> Count(field, opts[i])]]
        affRows == [i \in DOMAIN flt.affiliations |->
                       [key |-> flt.affiliations[i], count |-> affCount(flt.affiliations[i])]]
        list    == SortByCount(affRows)
    IN  [ years        |-> Rows(flt.years, "year"),
          states       |-> SortByCount(Rows(flt.states, "state")),
          types        |-> SortByCount(Rows(flt.complaint_types, "complaintType")),
          affiliations |-> IF direction = "by_press"
                           THEN SelectSeq(list, LAMBDA r : r.key \notin SuspiciousAffiliations)
                           ELSE list,
          decisions    |-> SortByCount(Rows(flt.decisions, "decision")) ]

\* backend records of the panel's working sets: those of RawPool and, in the
\* 'by' table, a complaint of one member of a media group against another
PanelPool(tbl) ==
    RawPool(tbl)
      \cup (IF tbl = "by"
            THEN { [ State |-> "Delhi", ReportName |-> <<"2", "0", "2", "0">>,
                     Complainant |-> "Reporter", Against |-> "Editor",
                     ComplaintType |-> "Defamation", Decision |-> "Upheld",
                     Decision_Parent |-> "Upheld", c_aff_resolved |-> "Times Group",
                     a_aff_resolved |-> "Times Group" ] @@ AbsentRecord }
            ELSE {})

\* the working sets fetchAllComplaints delivers for them
PanelWorkingSets(now) ==
    { MapTransform(by, "by", now, [i \in 1..(Len(by) + Len(ag)) |-> "k3x9"], 0)
        \o MapTransform(ag, "against", now, [i \in 1..(Len(by) + Len(ag)) |-> "k3x9"], Len(by)) :
          by \in SeqsUpTo(PanelPool("by"), MaxRows),
          ag \in SeqsUpTo(PanelPool("against"), MaxRows) }

PanelInit ==
    /\ DashboardIdle
    /\ complaint = AbsentRecord
    /\ table = "by"
    /\ transformed = None
    /\ label = None
    /\ AnalysesIdle
    /\ \E ws \in PanelWorkingSets(currentYear), fb \in FilterBodies,
          dir \in {"all", "by_press", "against_press"} :
           panelInput = [allData |-> ws, filters |-> Some(fb), selectedDirection |-> dir]
    /\ panel = None
    /\ GeoIdle

\* one render of FilterPanel with data = directionFilteredData
RenderPanel ==
    /\ panel = None
    /\ panel' = Some(FilterPanelOptions(
                         DirectionFilteredDataOf(panelInput.allData, panelInput.selectedDirection),
                         panelInput.filters[1], panelInput.selectedDirection))
    /\ UNCHANGED <<netVars, loadVars, selVars, memoVars, tabVars, normVars, label,
                   analysisVars, panelInput, geoVars>>

PanelNext == RenderPanel

PanelSpec == PanelInit /\ [][PanelNext]_vars

--------------------------------------------------------------------------
(* The map geometry loader: lib/use-india-geojson.ts                          *)

\* what a browser may hold under CACHE_KEY when the hook mounts
StorageContents ==
    {None, Some(EmptyText), Some(GarbageText), Some(Stringify(None)),
     Some(Stringify(NamedFeatures)), Some(Stringify(FirstFeatures))}

\* outcomes of fetch(GEOJSON_URL): a rejection, a status that is not ok, or a
\* body that is no JSON, the JSON null, a topology without objects, a topology
\* with other objects only, a topology with the object 'india_telengana', or one
\* whose object topojson.feature cannot convert
GeoResponses ==
    {"net_error", "bad_status", "not_json", "null", "no_objects", "first_object",
     "named_object", "malformed_object"}

\* catch (err) { setError(...) } finally { setLoading(false) }
GeoFail(msg) ==
    /\ geoError' = Some(msg)
    /\ geoLoading' = FALSE
    /\ geoPc' = "done"

\* loadData up to its first await: the cache is read; a parseable entry is used,
\* an entry that does not parse is removed, and without a usable entry the
\* request is issued
GeoStart ==
    /\ geoPc = "mounted"
    /\ cached' = storage
    /\ IF storage # None /\ ~storage[1].empty
       THEN IF storage[1].json
            THEN /\ geoData' = storage[1].value
                 /\ geoLoading' = FALSE
                 /\ geoPc' = "done"
                 /\ UNCHANGED <<storage, geoError, geoFetched>>
            ELSE /\ storage' = None
                 /\ geoFetched' = TRUE
                 /\ geoPc' = "fetching"
                 /\ UNCHANGED <<geoData, geoLoading, geoError>>
       ELSE /\ geoFetched' = TRUE
            /\ geoPc' = "fetching"
            /\ UNCHANGED <<storage, geoData, geoLoading, geoError>>
    /\ UNCHANGED <<quotaExceeded, geoBody, geoWriteFailed>>
    /\ UNCHANGED <<netVars, loadVars, selVars, memoVars, tabVars, normVars, label,
                   analysisVars, panelVars>>

\* await fetch(...): the request settles; a response that is not ok throws
GeoRespond ==
    /\ geoPc = "fetching"
    /\ \E r \in GeoResponses :
         IF r = "net_error" THEN GeoFail("Failed to fetch") /\ UNCHANGED geoBody
         ELSE IF r = "bad_status" THEN GeoFail("Failed to load map data") /\ UNCHANGED geoBody
         ELSE /\ geoBody' = Some(r)
              /\ geoPc' = "parsing"
              /\ UNCHANGED <<geoLoading, geoError>>
    /\ UNCHANGED <<storage, quotaExceeded, cached, geoData, geoFetched, geoWriteFailed>>
    /\ UNCHANGED <<netVars, loadVars, selVars, memoVars, tabVars, normVars, label,
                   analysisVars, panelVars>>

\* try { localStorage.setItem(CACHE_KEY, JSON.stringify(features)) } catch {}
\* followed by setData(features) and the finally block; the write throws when
\* the quota is exceeded
GeoStore(features) ==
    /\ storage' = IF quotaExceeded THEN storage ELSE Some(Stringify(features))
    /\ geoWriteFailed' = quotaExceeded
    /\ geoData' = features
    /\ geoLoading' = FALSE
    /\ geoPc' = "done"
    /\ UNCHANGED geoError

\* await response.json() and the rest of loadData
GeoConvert ==
    /\ geoPc = "parsing"
    /\ CASE geoBody[1] = "not_json" ->
                GeoFail("Unexpected token") /\ UNCHANGED <<storage, geoData, geoWriteFailed>>
         [] geoBody[1] = "null" ->
                GeoFail("Cannot read properties of null")
                  /\ UNCHANGED <<storage, geoData, geoWriteFailed>>
         [] geoBody[1] = "no_objects" ->
                GeoFail("Invalid TopoJSON format: missing objects")
                  /\ UNCHANGED <<storage, geoData, geoWriteFailed>>
         [] geoBody[1] = "malformed_object" ->
                GeoFail("Cannot read properties of undefined")
                  /\ UNCHANGED <<storage, geoData, geoWriteFailed>>
         [] geoBody[1] = "first_object" -> GeoStore(FirstFeatures)
         [] geoBody[1] = "named_object" -> GeoStore(NamedFeatures)
    /\ geoBody' = None
    /\ UNCHANGED <<quotaExceeded, cached, geoFetched>>
    /\ UNCHANGED <<netVars, loadVars, selVars, memoVars, tabVars, normVars, label,
                   analysisVars, panelVars>>

\* the component that uses the hook is mounted again; localStorage persists
GeoRemount ==
    /\ geoPc = "done"
    /\ GeoMounted(geoData', geoLoading', geoError', geoPc', cached', geoFetched', geoBody',
                  geoWriteFailed')
    /\ UNCHANGED <<storage, quotaExceeded>>
    /\ UNCHANGED <<netVars, loadVars, selVars, memoVars, tabVars, normVars, label,
                   analysisVars, panelVars>>

GeoInit ==
    /\ DashboardIdle
    /\ complaint = AbsentRecord
    /\ table = "by"
    /\ transformed = None
    /\ label = None
    /\ AnalysesIdle
    /\ PanelIdle
    /\ storage \in StorageContents
    /\ quotaExceeded \in BOOLEAN
    /\ GeoMounted(geoData, geoLoading, geoError, geoPc, cached, geoFetched, geoBody,
                  geoWriteFailed)

GeoNext ==
    \/ GeoStart
    \/ GeoRespond
    \/ GeoConvert
    \/ GeoRemount

GeoSpec == GeoInit /\ [][GeoNext]_vars

\* loadData runs to its next await, and the request settles
GeoLiveSpec ==
    GeoSpec /\ WF_vars(GeoStart) /\ WF_vars(GeoRespond) /\ WF_vars(GeoConvert)

--------------------------------------------------------------------------
(* The normalizer on its own: every input of NormInputs, either table *)

Alphabet == {"R", "0", "2"}

\* ReportName values: absent, or any string over Alphabet up to MaxNameLen
ReportNames == {UndefinedChars} \cup SeqsUpTo(Alphabet, MaxNameLen)

\* values of a string field: absent, empty, present
FieldValues == {Undefined, "", "x"}

\* every field at one value, then at most two fields or the ReportName changed
NormInputs ==
    LET base(v) == [f \in RawFields |-> v] @@ [ReportName |-> UndefinedChars]
    IN  {[base(v) EXCEPT ![f] = a, ![g] = b] :
            v \in FieldValues, f \in RawFields, g \in RawFields,
            a \in FieldValues, b \in FieldValues}
          \cup {[base(v) EXCEPT !.ReportName = n] : v \in FieldValues, n \in ReportNames}

NormInit ==
    /\ DashboardIdle
    /\ complaint \in NormInputs
    /\ table \in {"by", "against"}
    /\ transformed = None
    /\ label = None
    /\ AnalysesIdle
    /\ WidgetsIdle

\* one call of transformComplaint
Transform ==
    /\ transformed = None
    /\ \E rnd \in RandomSuffixes :
           transformed' = Some(transformComplaint(complaint, table, currentYear, rnd))
    /\ UNCHANGED <<netVars, loadVars, selVars, memoVars, tabVars, widgetVars, complaint, table, label, analysisVars>>

NormNext == Transform

NormSpec == NormInit /\ [][NormNext]_vars

--------------------------------------------------------------------------
(* The target label on its own: a raw record is normalized, then labelled *)

\* values of the accused's raw name and of the accused's resolved affiliation
LabelNames        == {Undefined, "", " ", "Editor", "EDITOR ", "Ram Singh", "times group",
                      "Unknown"}
LabelAffiliations == {Undefined, "", " ", "Unknown", "None", "Times Group", "Dainik Jagran"}

LabelInputs ==
    {[Against |-> n, a_aff_resolved |-> a] @@ AbsentRecord :
        n \in LabelNames, a \in LabelAffiliations}

LabelInit ==
    /\ DashboardIdle
    /\ complaint \in LabelInputs
    /\ table \in {"by", "against"}
    /\ transformed = None
    /\ label = None
    /\ AnalysesIdle
    /\ WidgetsIdle

\* one call of getTargetDisplayName, on the record the normalizer returned
ResolveLabel ==
    /\ transformed # None
    /\ label = None
    /\ label' = Some(getTargetDisplayName(transformed[1]))
    /\ UNCHANGED <<netVars, loadVars, selVars, memoVars, tabVars, widgetVars, normVars, analysisVars>>

LabelNext ==
    \/ Transform
    \/ ResolveLabel

LabelSpec == LabelInit /\ [][LabelNext]_vars

--------------------------------------------------------------------------
(* The analysis components on their own: one render with a filtered set *)

\* most distinct groups, most records added to a group, and the longest list
\* taken in every order
MaxGroups   == 12
MaxCopies   == 21
MaxShuffled == 3

DecisionNames ==
    <<"Censured", "Warned", "Admonished", "Dismissed", "Withdrawn", "Settled", "Dropped",
      "Rejected", "Sub-judice", "Cautioned", "Disposed of", "Lapsed", "Deferred", "Referred">>
CategoryNames ==
    <<"Government", "Police", "Political", "Media", "Judiciary", "Business", "Individual",
      "NGO", "Education", "Health", "Legal", "Religious", "Military", "Sports">>
TypeNames == <<"Defamation", "Fake News", "Harassment">>

\* the i-th backend record of group j
AnalysisRaw(j, i) ==
    [ State                    |-> IF j % 4 \in {1, 2} THEN "Delhi" ELSE "Kerala",
      ReportName               |-> <<"R", "2", "0", "2", IF j % 4 = 3 THEN "1" ELSE "0">>,
      Against                  |-> IF j % 3 = 0 THEN "Editor" ELSE "Ram Singh",
      a_aff_resolved           |-> IF j % 2 = 0 THEN "Times Group" ELSE Undefined,
      Decision_Specific        |-> DecisionNames[j],
      Decision_Parent          |-> IF i <= j THEN "Upheld"
                                   ELSE IF i = j + 1 THEN "Closed" ELSE "Disposed",
      Accused_Category         |-> CategoryNames[j],
      level                    |-> IF j % 4 < 2 THEN "National" ELSE "Regional",
      ComplaintType_Normalized |-> TypeNames[(j % 3) + 1],
      Complainant_Occupation   |-> IF i % 2 = 0 THEN "Politician" ELSE "" ] @@ AbsentRecord

\* the canonical complaint it becomes; odd groups come from the 'by' table
AnalysisRecord(j, i, now) ==
    transformComplaint(AnalysisRaw(j, i), IF j % 2 = 1 THEN "by" ELSE "against", now, "k3x9")

\* n records of group j
Group(j, n, now) == [i \in 1..n |-> AnalysisRecord(j, i, now)]

\* groups 1..g one after the other, an odd group holding two records and an even
\* group one
RECURSIVE ManyGroups(_, _)
ManyGroups(g, now) ==
    IF g = 0 THEN <<>> ELSE ManyGroups(g - 1, now) \o Group(g, 1 + (g % 2), now)

\* working sets: short lists in every order, many small groups, and two groups of
\* two records followed by a group of up to MaxCopies
AnalysisInputs(now) ==
    SeqsUpTo({AnalysisRecord(1, 1, now), AnalysisRecord(2, 1, now), AnalysisRecord(3, 1, now),
              AnalysisRecord(3, 2, now), transformComplaint(AbsentRecord, "by", now, "k3x9")},
             MaxShuffled)
      \cup {ManyGroups(g, now) : g \in 0..MaxGroups}
      \cup {Group(3, 2, now) \o Group(2, 2, now) \o Group(1, c, now) : c \in 1..MaxCopies}

AnalysisInit ==
    /\ DashboardIdle
    /\ complaint = AbsentRecord
    /\ table = "by"
    /\ transformed = None
    /\ label = None
    /\ analysisDirection \in {"all", "by_press", "against_press"}
    /\ \E input \in AnalysisInputs(currentYear) :
           analysisData = DirectionFilteredDataOf(input, analysisDirection)
    /\ analyses = None
    /\ WidgetsIdle

\* the characters of the state names the model's records hold
StateChars ==
    ("Unknown" :> <<"U", "n", "k", "n", "o", "w", "n">>) @@
    ("UNKNOWN" :> <<"U", "N", "K", "N", "O", "W", "N">>) @@
    ("none" :> <<"n", "o", "n", "e">>) @@
    ("NONE" :> <<"N", "O", "N", "E">>) @@
    ("Delhi" :> <<"D", "e", "l", "h", "i">>) @@
    ("Kerala" :> <<"K", "e", "r", "a", "l", "a">>) @@
    ("Goa" :> <<"G", "o", "a">>) @@
    ("Bihar" :> <<"B", "i", "h", "a", "r">>) @@
    ("Assam" :> <<"A", "s", "s", "a", "m">>) @@
    ("Punjab" :> <<"P", "u", "n", "j", "a", "b">>) @@
    ("Sikkim" :> <<"S", "i", "k", "k", "i", "m">>) @@
    ("Odisha" :> <<"O", "d", "i", "s", "h", "a">>)

\* variant: the sentinel is compared as it is spelled by the normalizer
IsKnownStateExact(state) == ~(Falsy(state) \/ state = "Unknown" \/ state = "none")

\* the negation of: !d.state || d.state.toLowerCase() === 'unknown' ||
\* d.state.toLowerCase() === 'none'
IsKnownState(state) ==
    ~(\/ Falsy(state)
      \/ ToLowerCase(StateChars[state]) = <<"u", "n", "k", "n", "o", "w", "n">>
      \/ ToLowerCase(StateChars[state]) = <<"n", "o", "n", "e">>)

\* stateData of RegionalAnalysis: a Map from state to its three counters, filled
\* from the records of known state, then sorted by total, largest first
stateData(data) ==
    LET kept    == SelectSeq(data, LAMBDA d : IsKnownState(d.state))
        keys    == [i \in DOMAIN kept |-> kept[i].state]
        entries == CountKeys(keys, Len(kept))
        rows    == [k \in DOMAIN entries |->
                      [ state        |-> entries[k].key,
                        total        |-> entries[k].count,
                        byPress      |-> Cardinality({i \in DOMAIN kept :
                                             /\ kept[i].state = entries[k].key
                                             /\ kept[i].complaintDirection = "by_press"}),
                        againstPress |-> Cardinality({i \in DOMAIN kept :
                                             /\ kept[i].state = entries[k].key
                                             /\ kept[i].complaintDirection # "by_press"}) ]]
        order   == SortOrder([k \in DOMAIN rows |-> rows[k].total])
    IN  [k \in DOMAIN rows |-> rows[order[k]]]

\* the slice of topStates
TOP_STATES == 5

\* stateData.slice(0, 5).map((s) => s.state)
topStates(rows) == [k \in DOMAIN Slice(rows, TOP_STATES) |-> rows[k].state]

\* yearlyByState: for each year, ascending, the number of records of each top
\* state that has a record in that year
yearlyByState(data, top) ==
    LET kept  == SelectSeq(data, LAMBDA d : Includes(top, d.state))
        years == {kept[i].year : i \in DOMAIN kept}
        Row(y) == [ year   |-> y,
                    states |-> [s \in {kept[i].state : i \in {n \in DOMAIN kept : kept[n].year = y}} |->
                                   Cardinality({i \in DOMAIN kept :
                                                   kept[i].year = y /\ kept[i].state = s})] ]
        desc == SortDesc(years)
    IN  [k \in DOMAIN desc |-> Row(desc[Len(desc) + 1 - k])]

\* what one render of the analysis components computes from its props: every
\* useMemo runs; ThreatsAnalysis is mounted only when the direction is by_press
AnalysesOf(data, direction) ==
    [ topTargets             |-> topTargets(data),
      typeDistribution       |-> typeDistribution(data),
      complainantOccupations |-> complainantOccupations(data),
      threatTypes            |-> IF direction = "by_press" THEN threatTypes(data) ELSE <<>>,
      stateMapData           |-> StateMapDataOf(data),
      decisionCounts         |-> decisionCounts(data),
      decisionByCategory     |-> decisionByCategory(data, direction),
      decisionByType         |-> decisionByType(data),
      upheldRateByCategory   |-> upheldRateByCategory(decisionByCategory(data, direction)),
      stateData              |-> stateData(data),
      topStates              |-> topStates(stateData(data)),
      yearlyByState          |-> yearlyByState(data, topStates(stateData(data))) ]

\* one render of the analysis components with data = analysisData and
\* selectedDirection = analysisDirection
RenderAnalyses ==
    /\ analyses = None
    /\ analyses' = Some(AnalysesOf(analysisData, analysisDirection))
    /\ UNCHANGED <<netVars, loadVars, selVars, memoVars, tabVars, widgetVars, normVars, label, analysisData,
                   analysisDirection>>

AnalysisNext == RenderAnalyses

AnalysisSpec == AnalysisInit /\ [][AnalysisNext]_vars

--------------------------------------------------------------------------
(* The regional view on its own: filtered sets over many states, with and     *)
(* without records whose state is a spelling of the unknown-state sentinels   *)

MaxStates == 6

RegionalStateNames == <<"Delhi", "Kerala", "Goa", "Bihar", "Assam", "Punjab", "Sikkim", "Odisha">>

\* spellings of the sentinels a backend record may carry in State; an absent
\* State is normalized to "Unknown"
SentinelStates == {Undefined, "UNKNOWN", "none", "NONE"}

\* the j-th record of state s: tables and years alternate
RegionalRecord(s, j, now) ==
    transformComplaint([ State |-> s,
                         ReportName |-> IF j % 3 = 0 THEN <<"2", "0", "2", "0">>
                                        ELSE <<"2", "0", "2", "2">> ] @@ AbsentRecord,
                       IF j % 2 = 0 THEN "by" ELSE "against", now, "k3x9")

\* the k-th state name ((k + 1) \div 2 times), for k up to n: later states have
\* more records, and neighbours tie
RECURSIVE StateGroups(_, _)
StateGroups(n, now) ==
    IF n = 0 THEN <<>>
    ELSE StateGroups(n - 1, now)
           \o [j \in 1..((n + 1) \div 2) |-> RegionalRecord(RegionalStateNames[n], n + j, now)]

RegionalInputs(now) ==
    LET plain == {StateGroups(n, now) : n \in 0..MaxStates}
        back  == {[i \in DOMAIN d |-> d[Len(d) + 1 - i]] : d \in plain}
    IN  (plain \cup back)
          \cup {<<RegionalRecord(u, 1, now)>> \o d \o <<RegionalRecord(u, 2, now)>> :
                   d \in plain \cup back, u \in SentinelStates}

RegionalInit ==
    /\ DashboardIdle
    /\ complaint = AbsentRecord
    /\ table = "by"
    /\ transformed = None
    /\ label = None
    /\ analysisDirection \in {"all", "by_press", "against_press"}
    /\ \E input \in RegionalInputs(currentYear) :
           analysisData = DirectionFilteredDataOf(input, analysisDirection)
    /\ analyses = None
    /\ WidgetsIdle

RegionalSpec == RegionalInit /\ [][AnalysisNext]_vars

--------------------------------------------------------------------------
(* Properties of the normalizer, checked under NormSpec *)

\* the canonical complaint the harness produced
Canonical == transformed[1]

\* the fields whose fallback chain ends in "Unknown" or "Pending"
SentinelFields == {"complainant", "against", "complaintType", "decision", "state",
                   "complainantAffiliation", "accusedAffiliation", "complaintDirection",
                   "gender", "complaintTypeNormalized", "decisionParent", "decisionSpecific",
                   "complainantCategory", "complainantOccupation", "accusedCategory",
                   "accusedOccupation", "level"}

\* the start positions of the 4-digit windows of a scanned string
DigitWindows(s) ==
    IF s = UndefinedChars THEN {}
    ELSE {i \in 1..(Len(s) - 3) : \A k \in 0..3 : s[i + k] \in Digits}

WindowValue(s, i) ==
    1000 * DigitValue(s[i]) + 100 * DigitValue(s[i + 1])
      + 10 * DigitValue(s[i + 2]) + DigitValue(s[i + 3])

FirstWindow(s) == CHOOSE i \in DigitWindows(s) : \A j \in DigitWindows(s) : i <= j

\* C5 as stated: after normalization no field is the empty string, undefined or
\* absent, and year is a 4-digit integer.
C5_NoFieldEmpty ==
    transformed # None =>
        /\ \A f \in StringFields : Canonical[f] \notin {"", Undefined}
        /\ Canonical.reportName \notin {<<>>, UndefinedChars}
        /\ Canonical.id # <<>>
        /\ Canonical.year \in 1000..9999

\* C5 as amended: no field is undefined or absent; the fields whose chain ends
\* in "Unknown" or "Pending" are never empty; complaint, date, reportName,
\* locationsMApped, complainantNameResolved and accusedNameResolved are the empty
\* string exactly when every input of their chain is absent or empty; year is an
\* integer in 0..9999 or the current year, and has fewer than four digits only
\* when the matched 4-digit substring starts with "0".
C5_NormalizerTotal ==
    transformed # None =>
        /\ DOMAIN Canonical = StringFields \cup {"id", "year", "reportName"}
        /\ \A f \in StringFields : Canonical[f] # Undefined
        /\ \A f \in SentinelFields : Canonical[f] # ""
        /\ Canonical.reportName # UndefinedChars
        /\ Len(Canonical.id) = 4 /\ Canonical.id[1] = table /\ Canonical.id[2] # Undefined
        /\ Canonical.complaint = "" <=> Falsy(complaint.Complaint)
        /\ Canonical.date = "" <=> Falsy(complaint.Date)
        /\ Canonical.reportName = <<>> <=> FalsyChars(complaint.ReportName)
        /\ Canonical.locationsMApped = ""
              <=> Falsy(complaint.Locations_Mapped) /\ Falsy(complaint.State)
        /\ Canonical.complainantNameResolved = ""
              <=> Falsy(complaint.c_name_resolved) /\ Falsy(complaint.Complainant)
        /\ Canonical.accusedNameResolved = ""
              <=> Falsy(complaint.a_name_resolved) /\ Falsy(complaint.Against)
        /\ Canonical.year \in (0..9999) \cup {currentYear}
        /\ Canonical.year \notin 1000..9999
              => /\ DigitWindows(complaint.ReportName) # {}
                 /\ complaint.ReportName[FirstWindow(complaint.ReportName)] = "0"

\* C5's case: a record with every field absent has been normalized
C5_Witness ==
    /\ transformed # None
    /\ complaint = AbsentRecord
    /\ Canonical.complaint = ""
    /\ Canonical.state = "Unknown"

\* C10: the canonical year is the integer value of the first contiguous 4-digit
\* substring of ReportName when there is one, and the current calendar year when
\* ReportName is absent or has no 4-digit substring.
C10_YearExtraction ==
    transformed # None =>
        IF DigitWindows(complaint.ReportName) # {}
        THEN Canonical.year = WindowValue(complaint.ReportName, FirstWindow(complaint.ReportName))
        ELSE Canonical.year = currentYear

\* C10's case: a ReportName whose first and last 4-digit windows differ in value
C10_Witness ==
    /\ transformed # None
    /\ \E i, j \in DigitWindows(complaint.ReportName) :
           /\ i < j
           /\ WindowValue(complaint.ReportName, i) # WindowValue(complaint.ReportName, j)
    /\ Canonical.year = WindowValue(complaint.ReportName, FirstWindow(complaint.ReportName))

\* C11 as stated: each of decision, decisionParent and decisionSpecific is
\* "Pending" whenever its own raw input is absent or empty, whatever the other
\* two raw decision inputs hold.
C11_IndependentPending ==
    transformed # None =>
        /\ Falsy(complaint.Decision) => Canonical.decision = "Pending"
        /\ Falsy(complaint.Decision_Parent) => Canonical.decisionParent = "Pending"
        /\ Falsy(complaint.Decision_Specific) => Canonical.decisionSpecific = "Pending"

\* C11 as amended: decision and decisionParent are "Pending" whenever their own
\* raw input is absent or empty, whatever the other decision inputs hold, and
\* are that input otherwise; decisionSpecific is its own raw input when that is
\* present, else the raw Decision when that is present, and "Pending" only when
\* both are absent or empty; Decision_Parent plays no part in it.
C11_PendingFallbacks ==
    transformed # None =>
        /\ Canonical.decision
              = (IF Falsy(complaint.Decision) THEN "Pending" ELSE complaint.Decision)
        /\ Canonical.decisionParent
              = (IF Falsy(complaint.Decision_Parent) THEN "Pending"
                 ELSE complaint.Decision_Parent)
        /\ Canonical.decisionSpecific
              = (IF ~Falsy(complaint.Decision_Specific) THEN complaint.Decision_Specific
                 ELSE IF ~Falsy(complaint.Decision) THEN complaint.Decision
                 ELSE "Pending")

\* C11's case: Decision_Specific and Decision_Parent are missing while the raw
\* Decision is present
C11_Witness ==
    /\ transformed # None
    /\ complaint.Decision_Specific = Undefined
    /\ complaint.Decision_Parent = ""
    /\ complaint.Decision = "x"
    /\ Canonical.decisionParent = "Pending"
    /\ Canonical.decisionSpecific = "x"

--------------------------------------------------------------------------
(* Properties of the filter pipeline, checked under Spec *)

\* a record satisfies every active dimension of the current selections
Satisfies(item) ==
    /\ selectedYears # <<>> => item.year \in Range(selectedYears)
    /\ selectedStates # <<>> => item.state \in Range(selectedStates)
    /\ selectedTypes # <<>> => item.complaintType \in Range(selectedTypes)
    /\ selectedDecisions # <<>> => item.decision \in Range(selectedDecisions)
    /\ selectedDirection # "all" => item.complaintDirection = selectedDirection
    /\ selectedAffiliations # <<>> =>
           \/ item.complainantAffiliation \in Range(selectedAffiliations)
           \/ item.accusedAffiliation \in Range(selectedAffiliations)

\* the positions of the working set whose record satisfies every active dimension
Kept == {i \in DOMAIN allData : Satisfies(allData[i])}

\* the records at a set of positions of a sequence, in position order
RECURSIVE Pick(_, _, _)
Pick(data, idx, n) ==
    IF n = 0 THEN <<>>
    ELSE IF n \in idx THEN Append(Pick(data, idx, n - 1), data[n])
    ELSE Pick(data, idx, n - 1)

\* the filter predicate applied to the full working set
Expected == Pick(allData, Kept, Len(allData))

\* b can be obtained from a by deleting elements
RECURSIVE IsSubSeq(_, _)
IsSubSeq(b, a) ==
    IF b = <<>> THEN TRUE
    ELSE IF a = <<>> THEN FALSE
    ELSE IF Head(a) = Head(b) THEN IsSubSeq(Tail(b), Tail(a))
    ELSE IsSubSeq(b, Tail(a))

NoConstraint ==
    /\ selectedYears = <<>> /\ selectedStates = <<>> /\ selectedTypes = <<>>
    /\ selectedAffiliations = <<>> /\ selectedDecisions = <<>>
    /\ selectedDirection = "all"

\* C1: a record of the working set is in the filtered set if and only if it
\* satisfies every active dimension (year, state, type, decision in the selected
\* values when any are selected, direction equal unless 'all', and either
\* party's affiliation in the selected affiliations when any are selected).
C1_FilterIff ==
    /\ \A i \in DOMAIN allData :
           Satisfies(allData[i]) <=> \E j \in DOMAIN filteredData : filteredData[j] = allData[i]
    /\ \A j \in DOMAIN filteredData : \E i \in DOMAIN allData : allData[i] = filteredData[j]
    /\ Len(filteredData) = Cardinality(Kept)

\* C1's case: affiliations are selected with another dimension, one record passes
\* on the accused's affiliation alone and another record is rejected
C1_Witness ==
    /\ View = "dashboard"
    /\ selectedAffiliations # <<>>
    /\ selectedDirection # "all"
    /\ \E j \in DOMAIN filteredData :
           /\ filteredData[j].complainantAffiliation \notin Range(selectedAffiliations)
           /\ filteredData[j].accusedAffiliation \in Range(selectedAffiliations)
    /\ Len(filteredData) < Len(allData)

\* C2: once the dashboard is shown, every consumer of the filtered set is given
\* one and the same set, the filter predicate applied to the full working set
\* under the current selections; the statistics and the map data are those of
\* that set.
C2_OneFilteredSet ==
    View = "dashboard" =>
        \A c \in Consumers \ {"FilterPanel"} :
            DataProp(c) = CASE c = "StatisticsPanel" -> StatisticsOf(Expected)
                            [] c = "IndiaMap"        -> StateMapDataOf(Expected)
                            [] OTHER                 -> Expected

\* C2's case: several filter operations have been applied and part of the
\* working set is shown
C2_Witness ==
    /\ View = "dashboard"
    /\ selectedDecisions # <<>>
    /\ selectedStates # <<>>
    /\ selectedDirection = "by_press"
    /\ Len(filteredData) > 0
    /\ Len(filteredData) < Len(allData)
    /\ statistics.total = Len(filteredData)

\* C3: with nothing selected and direction 'all' the filtered set is the full
\* working set, same records in the same order; clearAllFilters leads to such a
\* state from any selection.
C3_IdentityFilter ==
    /\ [](NoConstraint => filteredData = allData)
    /\ [][clearAllFilters => (NoConstraint' /\ filteredData' = allData' /\ allData' = allData)]_vars

\* C3's case: the dashboard shows a non-empty working set with nothing selected
C3_Witness ==
    /\ View = "dashboard"
    /\ NoConstraint
    /\ Len(allData) > 1
    /\ filteredData = allData

\* the list form of a finite set, in some order
RECURSIVE SetToSeq(_)
SetToSeq(S) ==
    IF S = {} THEN <<>>
    ELSE LET x == CHOOSE y \in S : TRUE IN <<x>> \o SetToSeq(S \ {x})

NonEmptyLists(S) == {SetToSeq(T) : T \in (SUBSET S) \ {{}}}

\* values a constraint on a dimension may list: those of the working set and
\* those the backend offers
YearValues  == {allData[i].year : i \in DOMAIN allData} \cup Range(AllYears)
StateValues == {allData[i].state : i \in DOMAIN allData} \cup StateOptions
TypeValues  == {allData[i].complaintType : i \in DOMAIN allData} \cup TypeOptions
AffValues   == {allData[i].complainantAffiliation : i \in DOMAIN allData}
                 \cup {allData[i].accusedAffiliation : i \in DOMAIN allData}
                 \cup AffiliationOptions
DecValues   == {allData[i].decision : i \in DOMAIN allData} \cup DecisionOptions

\* the filtered sets under the current selections extended by one constraint on
\* a dimension that is unconstrained
Extensions ==
    (IF selectedYears = <<>> THEN
        {FilteredDataOf(allData, c, selectedStates, selectedTypes, selectedDirection,
                        selectedAffiliations, selectedDecisions) : c \in NonEmptyLists(YearValues)}
     ELSE {})
    \cup
    (IF selectedStates = <<>> THEN
        {FilteredDataOf(allData, selectedYears, c, selectedTypes, selectedDirection,
                        selectedAffiliations, selectedDecisions) : c \in NonEmptyLists(StateValues)}
     ELSE {})
    \cup
    (IF selectedTypes = <<>> THEN
        {FilteredDataOf(allData, selectedYears, selectedStates, c, selectedDirection,
                        selectedAffiliations, selectedDecisions) : c \in NonEmptyLists(TypeValues)}
     ELSE {})
    \cup
    (IF selectedDirection = "all" THEN
        {FilteredDataOf(allData, selectedYears, selectedStates, selectedTypes, c,
                        selectedAffiliations, selectedDecisions) : c \in {"by_press", "against_press"}}
     ELSE {})
    \cup
    (IF selectedAffiliations = <<>> THEN
        {FilteredDataOf(allData, selectedYears, selectedStates, selectedTypes, selectedDirection,
                        c, selectedDecisions) : c \in NonEmptyLists(AffValues)}
     ELSE {})
    \cup
    (IF selectedDecisions = <<>> THEN
        {FilteredDataOf(allData, selectedYears, selectedStates, selectedTypes, selectedDirection,
                        selectedAffiliations, c) : c \in NonEmptyLists(DecValues)}
     ELSE {})

\* C4: constraining a dimension that was unconstrained, the other dimensions
\* unchanged, yields a filtered set that is a subset of the filtered set under
\* the original selections.
C4_Monotone == \A e \in Extensions : IsSubSeq(e, filteredData)

\* C4's case: some dimensions are constrained, and constraining another one
\* removes records while keeping others
C4_Witness ==
    /\ View = "dashboard"
    /\ selectedStates = <<>>
    /\ selectedAffiliations # <<>>
    /\ \E e \in Extensions : 0 < Len(e) /\ Len(e) < Len(filteredData)

--------------------------------------------------------------------------
(* Properties of the page load, checked under Spec *)

Failed(resp) == resp.kind \in {"bad_status", "net_error"}

\* C6: when either complaint-list request fails the working set is empty, never
\* the records of the table whose request succeeded, and once the load has
\* settled an error is reported; whenever the error state is set, the working
\* set is empty.
C6_NoPartialData ==
    /\ (Failed(byResp) \/ Failed(againstResp)) => allData = <<>>
    /\ ((Failed(byResp) \/ Failed(againstResp)) /\ ~isLoading) => error # None
    /\ error # None => allData = <<>>

\* C6's case: one table answered with records, the other request failed, the
\* filter options arrived and the load has settled
C6_Witness ==
    /\ byResp.kind = "ok" /\ Len(byResp.body) > 0
    /\ Failed(againstResp)
    /\ filtersResp.kind = "ok"
    /\ ~isLoading
    /\ error = Some(NoDataMessage)
    /\ allData = <<>>

\* C7: the dashboard is loading exactly while the joined initial fetch is
\* unsettled; once it has settled isLoading is false and stays false for the rest
\* of the page's life, the error does not change, and what is shown is the error
\* state when the error is set and the interactive dashboard when it is null; the
\* retry control, which reloads the page, belongs to the error state alone.
C7_LoadLifecycle ==
    /\ [](isLoading <=> loadPromise = "pending")
    /\ [](~isLoading => /\ View \in {"error", "dashboard"}
                        /\ View = "error" <=> error # None
                        /\ View = "dashboard" <=> error = None)
    /\ [][(~isLoading /\ ~Reload) => (~isLoading' /\ error' = error)]_vars
    /\ [][Reload => (View = "error" /\ isLoading' /\ error' = None)]_vars

\* C7's case: the joined fetch was rejected and the error state is shown
C7_Witness ==
    /\ loadPromise = "rejected"
    /\ ~isLoading
    /\ View = "error"
    /\ byResp.kind = "pending"

C9_DirectionFromTable ==
    /\ allData # <<>> => (loadPromise = "fulfilled" /\ byResp.kind = "ok" /\ againstResp.kind = "ok")
    /\ (loadPromise = "fulfilled" /\ byResp.kind = "ok" /\ againstResp.kind = "ok") =>
           /\ Len(allData) = Len(byResp.body) + Len(againstResp.body)
           /\ \A i \in DOMAIN byResp.body :
                  /\ allData[i].complaintDirection = "by_press"
                  /\ \E rnd \in LoadSuffixes :
                         allData[i] = transformComplaint(byResp.body[i], "by", currentYear, rnd)
           /\ \A j \in DOMAIN againstResp.body :
                  /\ allData[Len(byResp.body) + j].complaintDirection = "against_press"
                  /\ \E rnd \in LoadSuffixes :
                         allData[Len(byResp.body) + j]
                             = transformComplaint(againstResp.body[j], "against", currentYear, rnd)

\* C9's case: both tables answered with two different records each, and the same
\* backend record came from both tables
C9_Witness ==
    /\ loadPromise = "fulfilled"
    /\ Len(byResp.body) = 2 /\ byResp.body[1] # byResp.body[2]
    /\ Len(againstResp.body) = 2 /\ againstResp.body[1] # againstResp.body[2]
    /\ byResp.body[2] = againstResp.body[1]
    /\ allData[2].complaintDirection = "by_press"
    /\ allData[3].complaintDirection = "against_press"

--------------------------------------------------------------------------
(* Properties of the summary statistics, checked under Spec *)

\* C12: the summary's total is the length of the current filtered set; the
\* upheld rate is always a decimal numeral, "0" whenever the total is 0; with an
\* empty filtered set every count is 0.
C12_StatisticsConsistent ==
    /\ statistics.total = Len(filteredData)
    /\ \A i \in DOMAIN statistics.upheldRate : statistics.upheldRate[i] \in Digits \cup {"."}
    /\ statistics.total = 0 => statistics.upheldRate = <<"0">>
    /\ filteredData = <<>> =>
           /\ statistics.byPress = 0 /\ statistics.againstPress = 0
           /\ statistics.upheld = 0 /\ statistics.dismissed = 0
           /\ statistics.statesCovered = 0 /\ statistics.yearsSpanned = 0

\* C12's case: the selections of the dashboard leave no record of a non-empty
\* working set
C12_Witness ==
    /\ View = "dashboard"
    /\ Len(allData) > 0
    /\ selectedStates # <<>>
    /\ filteredData = <<>>
    /\ statistics.total = 0
    /\ statistics.upheldRate = <<"0">>

--------------------------------------------------------------------------
(* Properties of the aggregations, checked under AnalysisSpec *)

\* what the analysis components rendered
Rendered == analyses[1]

\* C13: the counts of each untruncated group-count view (complaint-type
\* distribution, complainant-occupation distribution, threat types where they
\* are shown, per-state map data) sum to the size of the filtered set.
C13_CountsSumToSize ==
    analyses # None =>
        /\ SumCounts(Rendered.typeDistribution) = Len(analysisData)
        /\ SumCounts(Rendered.complainantOccupations) = Len(analysisData)
        /\ SumCounts(Rendered.stateMapData) = Len(analysisData)
        /\ analysisDirection = "by_press" =>
               SumCounts(Rendered.threatTypes) = Len(analysisData)

\* C13's case: a by_press set of more than ten records with three complaint
\* types, two states and two occupations, groups holding several records
C13_Witness ==
    /\ analyses # None
    /\ analysisDirection = "by_press"
    /\ Len(analysisData) > 10
    /\ Len(Rendered.threatTypes) = 3
    /\ Len(Rendered.typeDistribution) = 3
    /\ Len(Rendered.stateMapData) = 2
    /\ Len(Rendered.complainantOccupations) = 2
    /\ Rendered.typeDistribution[1].count > 1

\* the position at which a key is first encountered in a list of keys
FirstIndex(keys, key) == CHOOSE i \in DOMAIN keys : keys[i] = key /\ \A j \in 1..(i - 1) : keys[j] # key

\* a view is ordered by descending count, equal counts in the order their keys
\* were first encountered
DescendingThenFirstSeen(keysOfView, counts, keys) ==
    \A a, b \in DOMAIN keysOfView :
        a < b => \/ counts[a] > counts[b]
                 \/ /\ counts[a] = counts[b]
                    /\ FirstIndex(keys, keysOfView[a]) < FirstIndex(keys, keysOfView[b])

\* a view is in the order its keys were first encountered
FirstSeenOrder(keysOfView, keys) ==
    \A a, b \in DOMAIN keysOfView :
        a < b => FirstIndex(keys, keysOfView[a]) < FirstIndex(keys, keysOfView[b])

CountsOfView(view) == [k \in DOMAIN view |-> view[k].count]
TypeKeys  == [i \in DOMAIN analysisData |-> analysisData[i].complaintTypeNormalized]
StateKeys == [i \in DOMAIN analysisData |-> analysisData[i].state]
OccupationKeys == [i \in DOMAIN analysisData |-> analysisData[i].complainantOccupation]

TypeDistributionOrdered ==
    DescendingThenFirstSeen([k \in DOMAIN Rendered.typeDistribution |->
                                Rendered.typeDistribution[k].type],
                            CountsOfView(Rendered.typeDistribution), TypeKeys)

\* the records (2020, Delhi, by_press), (2020, Delhi, against_press),
\* (2021, Kerala, by_press)
ExampleRecords ==
    <<AnalysisRecord(1, 1, currentYear), AnalysisRecord(2, 1, currentYear),
      AnalysisRecord(3, 1, currentYear)>>

\* C14 as stated: every group-count view, the per-state map data included, is
\* ordered by descending count, groups with equal counts in the order their keys
\* were first encountered in the filtered set.
C14_DescendingEverywhere ==
    analyses # None =>
        /\ TypeDistributionOrdered
        /\ DescendingThenFirstSeen([k \in DOMAIN Rendered.stateMapData |->
                                       Rendered.stateMapData[k].state],
                                   CountsOfView(Rendered.stateMapData), StateKeys)

\* C14 as amended: the complaint-type distribution, the complainant-occupation
\* distribution and the threat types are ordered by descending count, groups with
\* equal counts in the order their keys were first encountered; the per-state map
\* data is in the order the states were first encountered, whatever the counts;
\* for the example records filtered by by_press the states are (Delhi, 1),
\* (Kerala, 1).
C14_GroupCountOrdering ==
    analyses # None =>
        /\ TypeDistributionOrdered
        /\ DescendingThenFirstSeen([k \in DOMAIN Rendered.complainantOccupations |->
                                       Rendered.complainantOccupations[k].occupation],
                                   CountsOfView(Rendered.complainantOccupations),
                                   OccupationKeys)
        /\ analysisDirection = "by_press" =>
               DescendingThenFirstSeen([k \in DOMAIN Rendered.threatTypes |->
                                           Rendered.threatTypes[k].type],
                                       CountsOfView(Rendered.threatTypes), TypeKeys)
        /\ FirstSeenOrder([k \in DOMAIN Rendered.stateMapData |->
                              Rendered.stateMapData[k].state], StateKeys)
        /\ (analysisDirection = "by_press"
              /\ analysisData = DirectionFilteredDataOf(ExampleRecords, "by_press")) =>
               [k \in DOMAIN Rendered.stateMapData |->
                   <<Rendered.stateMapData[k].state, Rendered.stateMapData[k].count>>]
                 = << <<"Delhi", 1>>, <<"Kerala", 1>> >>

\* the example's filtered set has been rendered
ExampleRendered ==
    /\ analyses # None
    /\ analysisDirection = "by_press"
    /\ analysisData = DirectionFilteredDataOf(ExampleRecords, "by_press")
    /\ Len(analysisData) = 2

\* C14's case: the sort moved the first type encountered behind a more frequent
\* one, two types have equal counts, and the map data lists a state with fewer
\* records before a state with more
C14_Witness ==
    /\ analyses # None
    /\ Len(Rendered.typeDistribution) = 3
    /\ Rendered.typeDistribution[1].type # analysisData[1].complaintTypeNormalized
    /\ \E k \in 1..2 : Rendered.typeDistribution[k].count = Rendered.typeDistribution[k + 1].count
    /\ Len(Rendered.stateMapData) = 2
    /\ Rendered.stateMapData[1].count < Rendered.stateMapData[2].count

\* the grouping key of the specific-decision view, per record
DecisionKeys == [i \in DOMAIN analysisData |-> analysisData[i].decisionSpecific]

\* the number of records with a key
Occurrences(keys, key) == Cardinality({i \in DOMAIN keys : keys[i] = key})

\* the distinct keys of a list
Distinct(keys) == {keys[i] : i \in DOMAIN keys}

\* C15: in the specific-decision view with K = 10, when there are more than K
\* distinct decisions the output is K distinct groups with their record counts,
\* no group left out having more records than one of them, followed by one
\* "All Other Decisions" entry, and the K counts plus the synthetic count equal the
\* size of the filtered set; with at most K distinct decisions there is one entry
\* per decision, no synthetic entry, and the counts sum to the size of the set.
C15_TopKOverflow ==
    analyses # None =>
        LET view == Rendered.decisionCounts
            K    == TOP_N
        IN  /\ SumCounts(view) = Len(analysisData)
            /\ Cardinality(Distinct(DecisionKeys)) > K =>
                   /\ Len(view) = K + 1
                   /\ view[K + 1].decision = "All Other Decisions"
                   /\ \A k \in 1..K :
                          /\ view[k].decision \in Distinct(DecisionKeys)
                          /\ view[k].count = Occurrences(DecisionKeys, view[k].decision)
                          /\ \A l \in 1..K : l # k => view[l].decision # view[k].decision
                   /\ \A key \in Distinct(DecisionKeys) \ {view[k].decision : k \in 1..K} :
                          \A k \in 1..K : Occurrences(DecisionKeys, key) <= view[k].count
                   /\ view[K + 1].count
                        = Cardinality({i \in DOMAIN DecisionKeys :
                                          DecisionKeys[i] \notin {view[k].decision : k \in 1..K}})
            /\ Cardinality(Distinct(DecisionKeys)) <= K =>
                   /\ Len(view) = Cardinality(Distinct(DecisionKeys))
                   /\ \A k \in DOMAIN view :
                          /\ view[k].decision # "All Other Decisions"
                          /\ view[k].count = Occurrences(DecisionKeys, view[k].decision)

\* C15's case: more than ten distinct decisions, the groups left out holding
\* several records together
C15_Witness ==
    /\ analyses # None
    /\ Cardinality(Distinct(DecisionKeys)) > 11
    /\ Len(Rendered.decisionCounts) = 11
    /\ Rendered.decisionCounts[11].decision = "All Other Decisions"
    /\ Rendered.decisionCounts[11].count > 1
    /\ Rendered.decisionCounts[1].count > Rendered.decisionCounts[10].count

\* the outer key of the category matrix, per record: the level when the
\* direction is against_press, the accused's category otherwise
CategoryKeys ==
    [i \in DOMAIN analysisData |->
        IF analysisDirection = "against_press" THEN analysisData[i].level
        ELSE analysisData[i].accusedCategory]

\* the number of records with an outer key whose parent decision is in a set
Cell(keys, key, parents) ==
    Cardinality({i \in DOMAIN keys : keys[i] = key /\ analysisData[i].decisionParent \in parents})

AllParents   == {analysisData[i].decisionParent : i \in DOMAIN analysisData}
TotalsOf(rows) == [k \in DOMAIN rows |-> [count |-> rows[k].total]]

\* a rate string is num/den as a percentage with one decimal place: digits, a
\* point and one digit, the nearest tenth of a percent
IsRate(s, num, den) ==
    /\ Len(s) >= 3
    /\ s[Len(s) - 1] = "."
    /\ \A i \in DOMAIN s : i # Len(s) - 1 => s[i] \in Digits
    /\ LET tenths == ParseFloatTenths(s)
           diff   == 1000 * num - tenths * den
       IN  2 * (IF diff < 0 THEN -diff ELSE diff) <= den

\* C16: the category matrix has exactly one row per distinct category of the
\* filtered set; a row's total is the number of records with that category; its
\* Upheld, Closed and Other counts are non-negative and sum to the total; the
\* row totals sum to the size of the filtered set; upheldRate is Upheld/total as
\* a percentage with one decimal place, "0" for a row whose total is zero. The
\* matrix by complaint type likewise has one row per type, with its total and
\* rate.
C16_MatrixRows ==
    analyses # None =>
        LET rows  == Rendered.decisionByCategory
            types == Rendered.decisionByType
        IN  /\ Len(rows) = Cardinality(Distinct(CategoryKeys))
            /\ {rows[k].category : k \in DOMAIN rows} = Distinct(CategoryKeys)
            /\ SumCounts(TotalsOf(rows)) = Len(analysisData)
            /\ \A k \in DOMAIN rows :
                   /\ rows[k].total = Occurrences(CategoryKeys, rows[k].category)
                   /\ rows[k].Upheld = Cell(CategoryKeys, rows[k].category, {"Upheld"})
                   /\ rows[k].Closed = Cell(CategoryKeys, rows[k].category, {"Closed"})
                   /\ rows[k].Other
                        = Cell(CategoryKeys, rows[k].category, AllParents \ {"Upheld", "Closed"})
                   /\ rows[k].Upheld >= 0 /\ rows[k].Closed >= 0 /\ rows[k].Other >= 0
                   /\ rows[k].Upheld + rows[k].Closed + rows[k].Other = rows[k].total
                   /\ IF rows[k].total = 0 THEN rows[k].upheldRate = <<"0">>
                      ELSE IsRate(rows[k].upheldRate, rows[k].Upheld, rows[k].total)
            /\ Len(types) = Cardinality(Distinct(TypeKeys))
            /\ {types[k].type : k \in DOMAIN types} = Distinct(TypeKeys)
            /\ SumCounts(TotalsOf(types)) = Len(analysisData)
            /\ \A k \in DOMAIN types :
                   /\ types[k].total = Occurrences(TypeKeys, types[k].type)
                   /\ types[k].Upheld = Cell(TypeKeys, types[k].type, {"Upheld"})
                   /\ IF types[k].total = 0 THEN types[k].upheldRate = <<"0">>
                      ELSE IsRate(types[k].upheldRate, types[k].Upheld, types[k].total)

\* C16's case: several categories, one of them with upheld, closed and other
\* records and a rate that is not a whole number of percent
C16_Witness ==
    /\ analyses # None
    /\ Len(Rendered.decisionByCategory) >= 3
    /\ \E k \in DOMAIN Rendered.decisionByCategory :
           LET row == Rendered.decisionByCategory[k]
           IN  /\ row.Upheld > 0 /\ row.Closed > 0 /\ row.Other > 1
               /\ row.upheldRate[Len(row.upheldRate)] # "0"

NineteenLeftOut ==
    /\ analyses # None
    /\ Rendered.upheldRateByCategory = <<>>
    /\ \E k \in DOMAIN Rendered.decisionByCategory : Rendered.decisionByCategory[k].total = 19

\* the records of a list in the opposite order, and with the first record moved
\* to the end
Reversed(data) == [i \in DOMAIN data |-> data[Len(data) + 1 - i]]
Rotated(data)  == [i \in DOMAIN data |-> data[(i % Len(data)) + 1]]

\* orderings of the same records: the reversed and the rotated list, and every
\* permutation of a list of at most MaxShuffled records
Orderings(data) ==
    {Reversed(data), Rotated(data)}
      \cup (IF Len(data) <= MaxShuffled
            THEN {[i \in DOMAIN data |-> data[p[i]]] :
                     p \in {f \in [DOMAIN data -> DOMAIN data] :
                               \A i, j \in DOMAIN data : i # j => f[i] # f[j]}}
            ELSE {})

TotalsSeq(rows) == [k \in DOMAIN rows |-> rows[k].total]
RatesSeq(rows)  == [k \in DOMAIN rows |-> ParseFloatTenths(rows[k].upheldRate)]

\* two views hold the same rows, with the same sequence of sort keys: they differ
\* at most in the relative order of rows with equal sort keys
SameUpToTies(v, w, keysV, keysW) ==
    /\ Len(v) = Len(w)
    /\ Range(v) = Range(w)
    /\ keysV = keysW

\* two views cut to at most n rows have the same sequence of sort keys, and
\* share every row whose sort key is above that of the last row kept; when fewer
\* than n rows exist they hold the same rows
SameUpToCut(v, w, keysV, keysW, n) ==
    /\ keysV = keysW
    /\ Len(v) < n => Range(v) = Range(w)
    /\ \A k \in DOMAIN v : keysV[k] > keysV[Len(v)] => v[k] \in Range(w)

\* the group-count views of two renders differ at most in the order of groups
\* with equal counts
GroupCountsAgree(a, b) ==
    /\ SameUpToTies(a.typeDistribution, b.typeDistribution,
                    CountsOfView(a.typeDistribution), CountsOfView(b.typeDistribution))
    /\ SameUpToTies(a.complainantOccupations, b.complainantOccupations,
                    CountsOfView(a.complainantOccupations),
                    CountsOfView(b.complainantOccupations))
    /\ SameUpToTies(a.threatTypes, b.threatTypes,
                    CountsOfView(a.threatTypes), CountsOfView(b.threatTypes))
    /\ SameUpToCut(a.topTargets, b.topTargets,
                   CountsOfView(a.topTargets), CountsOfView(b.topTargets), TOP_TARGETS)

NamedDecisions(view) == {view[k].decision : k \in 1..TOP_N}

--------------------------------------------------------------------------
(* Properties of the target label, checked under LabelSpec *)

\* the affiliation and the name the label is resolved from, trimmed
LabelAff  == Trim(Chars(Canonical.accusedAffiliation))
LabelName == Trim(Chars(Canonical.against))

AffMissing == LabelAff \in {<<>>, UnknownChars, NoneChars}
NameIsRole == ToLowerCase(LabelName) \in genericRoles

\* " — " with the em dash U+2014 as one character
EmDashSeparator == <<" ", "U+2014", " ">>

\* C18: the label follows the fixed precedence for every (name, affiliation)
\* pair: affiliation empty/"Unknown"/"None" and name a generic role title, case
\* insensitively, gives "<name> (Unspecified Media Outlet)"; affiliation
\* empty/"Unknown"/"None" otherwise gives the name, or "Unknown" if the name is
\* empty; affiliation present and name a generic role title gives the affiliation
\* alone; affiliation present and case-insensitively equal to the name gives the
\* affiliation alone; otherwise the label is "<affiliation> — <name>".
C18_LabelPrecedence ==
    label # None =>
        label[1] = IF AffMissing /\ NameIsRole THEN LabelName \o UnspecifiedSuffix
                   ELSE IF AffMissing
                        THEN (IF LabelName = <<>> THEN UnknownChars ELSE LabelName)
                   ELSE IF NameIsRole THEN LabelAff
                   ELSE IF ToLowerCase(LabelName) = ToLowerCase(LabelAff) THEN LabelAff
                   ELSE LabelAff \o EmDashSeparator \o LabelName

\* C18's case: the label of (Ram Singh, Times Group) has been resolved, and holds
\* the three characters of the source's separator where the em dash belongs
C18_Witness ==
    /\ label # None
    /\ complaint.Against = "Ram Singh"
    /\ complaint.a_aff_resolved = "Times Group"
    /\ label[1] = Chars("Times Group") \o <<" ", "U+00E2", "U+20AC", "U+201D", " ">>
                    \o Chars("Ram Singh")

\* the rest of the precedence holds: every label that is not the joined form is
\* the one the precedence gives, and a name of blanks with an affiliation present
\* gives the affiliation alone
LabelPrecedenceButSeparator ==
    label # None =>
        \/ label[1] = LabelAff \o DashSeparator \o LabelName
        \/ (~AffMissing /\ LabelName = <<>> /\ label[1] = LabelAff)
        \/ C18_LabelPrecedence

\* C19: for a record whose accused affiliation is present (not empty, "Unknown"
\* or "None") and whose raw Against is empty or absent, the target label computed
\* on the record as it leaves the normalizer is the affiliation alone.
C19_AffiliationAlone ==
    (label # None /\ Falsy(complaint.Against) /\ ~AffMissing) => label[1] = LabelAff

\* C19's case: a raw record without Against and with affiliation "Times Group"
\* has been normalized, its name became "Unknown", and its label joins the
\* affiliation and that sentinel
C19_Witness ==
    /\ label # None
    /\ complaint.Against = Undefined
    /\ complaint.a_aff_resolved = "Times Group"
    /\ Canonical.against = "Unknown"
    /\ label[1] = Chars("Times Group") \o DashSeparator \o UnknownChars

\* what the label is in C19's case: the affiliation joined with "Unknown"
MissingNameJoinsUnknown ==
    (label # None /\ Falsy(complaint.Against) /\ ~AffMissing) =>
        label[1] = LabelAff \o DashSeparator \o UnknownChars

--------------------------------------------------------------------------
(* Properties of the requests of the page load, checked under Spec *)

\* C21: every request the dashboard issues during load, to the complaint-list
\* endpoint and to the filter-options endpoint alike, is made with
\* cache: 'no-store'.
C21_NoStoreEverywhere ==
    \A r \in requests : r.cache = "no-store"

\* C21's case: a page load has consumed the answer to the filter-options
\* request, which was made with the default cache mode, next to complaint lists
\* requested with 'no-store'
C21_Witness ==
    /\ loadPromise = "fulfilled"
    /\ filters # None
    /\ Len(allData) > 0
    /\ \E r \in requests : r.url = "/complaints/filters" /\ r.cache = "default"
    /\ \A r \in requests : r.url # "/complaints/filters" => r.cache = "no-store"

\* a request of the page load that has not been answered
Hung == {r \in {"by", "against", "filters"} :
            CASE r = "by"      -> byResp.kind = "pending"
              [] r = "against" -> againstResp.kind = "pending"
              [] r = "filters" -> filtersResp.kind = "pending"}

\* C22 as stated: while a request of the initial load hangs and the dashboard is
\* still loading, the filter panel, the statistics, the charts and the map are
\* rendered.
C22_RestOfUiWhileHung ==
    (Hung # {} /\ isLoading) =>
        {"FilterPanel", "StatisticsPanel", "IndiaMap", "TargetsAnalysis",
         "ComplainantsAnalysis", "AccountabilityAnalysis", "RegionalAnalysis"}
            \subseteq RenderedComponents

\* C22, amended: while the joined fetch is unsettled some request hangs, the
\* loading screen is the whole page, no component of the dashboard is rendered
\* and no selection changes; the only steps are arrivals of responses.  A request
\* that still hangs after the join has settled blocks nothing: the page has left
\* the loading state.
C22_LoadingBlocksWholeUi ==
    /\ [](loadPromise = "pending" => /\ Hung # {}
                                     /\ View = "loading"
                                     /\ RenderedComponents = {})
    /\ [](loadPromise # "pending" => View # "loading")
    /\ [][loadPromise = "pending" =>
            /\ selVars' = selVars
            /\ RespondBy \/ RespondAgainst \/ RespondFilters]_vars

\* C22's case: one complaint-list request hangs after the other list and the
\* filter options have arrived
C22_Witness ==
    /\ byResp.kind = "pending"
    /\ againstResp.kind = "ok" /\ Len(againstResp.body) > 0
    /\ filtersResp.kind = "ok"
    /\ loadPromise = "pending"
    /\ View = "loading"

--------------------------------------------------------------------------
(* Properties of the analysis tabs, checked under Spec *)

\* C23: under each direction selection (all, by_press, against_press) the
\* Targets, the Complainants and the Threats section are all three available on
\* the dashboard, and each is rendered with exactly the parent's filtered data.
C23_AllThreeSections ==
    View = "dashboard" =>
        \A c \in {"TargetsAnalysis", "ComplainantsAnalysis", "ThreatsAnalysis"} :
            c \in RenderedComponents /\ DataProp(c) = filteredData

\* C23's case: the direction is against_press, records are in the filtered set,
\* Targets and Complainants are rendered with it and Threats is not rendered
C23_Witness ==
    /\ View = "dashboard"
    /\ selectedDirection = "against_press"
    /\ Len(filteredData) > 0
    /\ {"TargetsAnalysis", "ComplainantsAnalysis"} \subseteq RenderedComponents
    /\ DataProp("TargetsAnalysis") = filteredData
    /\ DataProp("ComplainantsAnalysis") = filteredData
    /\ "ThreatsAnalysis" \notin RenderedComponents

\* the state the guard effect exists for
ThreatsAstray == activeView = "threats" /\ selectedDirection # "by_press"

--------------------------------------------------------------------------
(* Properties of single filter controls, checked under Spec *)

\* the step is a move of the years slider to [lo, hi]
SliderMoved(lo, hi) ==
    /\ YearSliderChange
    /\ selectedYears' = SliderYears(AllYears, lo, hi)

\* the positions of the slider: min, max and step 1
SliderStops == IF Len(AllYears) = 0 THEN {} ELSE SeqMin(AllYears)..SeqMax(AllYears)

CoversAllYears(lo, hi) == \A y \in Range(AllYears) : lo <= y /\ y <= hi
HoldsAYear(lo, hi)     == \E y \in Range(AllYears) : lo <= y /\ y <= hi
YearsWithin(data, lo, hi) == \A i \in DOMAIN data : lo <= data[i].year /\ data[i].year <= hi

C26_StateClick ==
    /\ [][handleStateClick =>
            /\ UNCHANGED <<selectedYears, selectedTypes, selectedDirection,
                           selectedAffiliations, selectedDecisions>>
            /\ Len(selectedStates') <= 1
            /\ Range(selectedStates') \subseteq MapStateNames \ Range(selectedStates)]_vars
    /\ [](MapSelectedState # None <=> Len(selectedStates) = 1)
    /\ [](MapSelectedState # None => MapSelectedState = Some(selectedStates[1]))
    /\ [](Len(selectedStates) # 1 => MapSelectedState = None)

\* C26's case: a state of the map is the sole selected state and is handed to
\* the map while another dimension holds a selection
C26_Witness ==
    /\ View = "dashboard"
    /\ Len(selectedStates) = 1
    /\ selectedStates[1] \in MapStateNames
    /\ MapSelectedState = Some(selectedStates[1])
    /\ selectedTypes # <<>>

--------------------------------------------------------------------------
(* Properties of the statistics cards, checked under Spec *)

\* C27: in every reachable state the summary has byPress + againstPress = total
\* and upheld + dismissed <= total; under direction by_press againstPress is 0 and
\* byPress is the total, under against_press byPress is 0 and againstPress is the
\* total; a card of the statistics panel shows "N/A" only where the count is 0.
C27_SummaryArithmetic ==
    /\ statistics.byPress + statistics.againstPress = statistics.total
    /\ statistics.upheld + statistics.dismissed <= statistics.total
    /\ selectedDirection = "by_press" =>
           statistics.againstPress = 0 /\ statistics.byPress = statistics.total
    /\ selectedDirection = "against_press" =>
           statistics.byPress = 0 /\ statistics.againstPress = statistics.total
    /\ byPressDisplay.na => statistics.byPress = 0
    /\ againstPressDisplay.na => statistics.againstPress = 0

\* C27's case: under direction by_press the working set holds records of both
\* directions, the filtered set is not empty, and the Against Press card reads
\* "N/A"
C27_Witness ==
    /\ View = "dashboard"
    /\ selectedDirection = "by_press"
    /\ \E i \in DOMAIN allData : allData[i].complaintDirection = "against_press"
    /\ statistics.total > 0
    /\ statistics.upheld > 0
    /\ againstPressDisplay.na
    /\ ~byPressDisplay.na /\ byPressDisplay.count = statistics.total

--------------------------------------------------------------------------
(* Properties of the filter panel's counts, checked under PanelSpec *)

\* the number of records the filtered set holds when x alone is selected in one
\* dimension, under the panel's direction
AloneYear(x) ==
    Len(FilteredDataOf(panelInput.allData, <<x>>, <<>>, <<>>, panelInput.selectedDirection, <<>>, <<>>))
AloneState(x) ==
    Len(FilteredDataOf(panelInput.allData, <<>>, <<x>>, <<>>, panelInput.selectedDirection, <<>>, <<>>))
AloneType(x) ==
    Len(FilteredDataOf(panelInput.allData, <<>>, <<>>, <<x>>, panelInput.selectedDirection, <<>>, <<>>))
AloneAffiliation(x) ==
    Len(FilteredDataOf(panelInput.allData, <<>>, <<>>, <<>>, panelInput.selectedDirection, <<x>>, <<>>))
AloneDecision(x) ==
    Len(FilteredDataOf(panelInput.allData, <<>>, <<>>, <<>>, panelInput.selectedDirection, <<>>, <<x>>))

\* the year, state, type and decision options carry the number of records their
\* selection alone leaves, 0 included, and every backend option is listed
PanelCountsButAffiliations ==
    panel # None =>
        LET p == panel[1]
            f == panelInput.filters[1]
        IN  /\ \A i \in DOMAIN p.years     : p.years[i].count = AloneYear(p.years[i].key)
            /\ \A i \in DOMAIN p.states    : p.states[i].count = AloneState(p.states[i].key)
            /\ \A i \in DOMAIN p.types     : p.types[i].count = AloneType(p.types[i].key)
            /\ \A i \in DOMAIN p.decisions : p.decisions[i].count = AloneDecision(p.decisions[i].key)
            /\ {p.years[i].key : i \in DOMAIN p.years} = Range(f.years)
            /\ {p.states[i].key : i \in DOMAIN p.states} = Range(f.states)
            /\ {p.types[i].key : i \in DOMAIN p.types} = Range(f.complaint_types)
            /\ {p.decisions[i].key : i \in DOMAIN p.decisions} = Range(f.decisions)

\* the records of the panel's direction that carry affiliation x on both sides
BothSides(x) ==
    LET data == DirectionFilteredDataOf(panelInput.allData, panelInput.selectedDirection)
    IN  Cardinality({i \in DOMAIN data : /\ data[i].complainantAffiliation = x
                                         /\ data[i].accusedAffiliation = x})

\* an affiliation option carries the number of records its selection alone
\* leaves plus the number of records that carry it on both sides
PanelAffiliationCounts ==
    panel # None =>
        \A i \in DOMAIN panel[1].affiliations :
            LET r == panel[1].affiliations[i]
            IN  r.count = AloneAffiliation(r.key) + BothSides(r.key)

\* C28: the count beside each option of the filter panel, in every dimension
\* (year, state, complaint type, affiliation, decision), is the number of records
\* the filtered set holds when that option alone is selected under the current
\* direction; an option of the backend list that no record matches shows 0.
C28_OptionCounts ==
    /\ PanelCountsButAffiliations
    /\ panel # None =>
           \A i \in DOMAIN panel[1].affiliations :
               panel[1].affiliations[i].count = AloneAffiliation(panel[1].affiliations[i].key)

\* C28's case: the panel lists an affiliation with a count larger than the
\* number of records its selection leaves, next to a state option with count 0
C28_Witness ==
    /\ panel # None
    /\ \E i \in DOMAIN panel[1].affiliations :
           /\ AloneAffiliation(panel[1].affiliations[i].key) > 0
           /\ panel[1].affiliations[i].count > AloneAffiliation(panel[1].affiliations[i].key)
    /\ \E i \in DOMAIN panel[1].states : panel[1].states[i].count = 0

--------------------------------------------------------------------------
(* Properties of the regional view, checked under RegionalSpec *)

\* the spellings of a state that stand for "not known"
NotKnown == {"", "unknown", "Unknown", "UNKNOWN", "none", "None", "NONE"}

\* C29: the rows of the regional per-state aggregation are exactly the entries of
\* the map data whose state is not empty, 'unknown' or 'none' in any letter case,
\* with the same three counts; each row has total = byPress + againstPress; the
\* totals add up to the number of filtered records of known state; the rows are
\* in descending order of total; and the states of the yearly trend are states
\* of the first five rows.
C29_RegionalRows ==
    analyses # None =>
        LET rows    == Rendered.stateData
            mapData == Rendered.stateMapData
            known   == {i \in DOMAIN analysisData : analysisData[i].state \notin NotKnown}
        IN  /\ {rows[k] : k \in DOMAIN rows}
                 = {[state |-> mapData[m].state, total |-> mapData[m].count,
                     byPress |-> mapData[m].byPress, againstPress |-> mapData[m].againstPress] :
                       m \in {n \in DOMAIN mapData : mapData[n].state \notin NotKnown}}
            /\ Cardinality({rows[k].state : k \in DOMAIN rows}) = Len(rows)
            /\ \A k \in DOMAIN rows : rows[k].total = rows[k].byPress + rows[k].againstPress
            /\ Cardinality(known) =
                   Cardinality({<<k, n>> \in (DOMAIN rows) \X (1..Len(analysisData)) :
                                   n <= rows[k].total})
            /\ \A k \in DOMAIN rows : \A l \in DOMAIN rows : k < l => rows[k].total >= rows[l].total
            /\ Range(Rendered.topStates) = {rows[k].state : k \in {n \in DOMAIN rows : n <= 5}}
            /\ \A y \in DOMAIN Rendered.yearlyByState :
                   DOMAIN Rendered.yearlyByState[y].states \subseteq Range(Rendered.topStates)

\* C29's case: the filtered set holds records of more than five known states and
\* records of a sentinel state spelled in capitals; the rows are fewer than the
\* map entries, and the trend leaves a row's state out
C29_Witness ==
    /\ analyses # None
    /\ Len(Rendered.stateData) > 5
    /\ \E i \in DOMAIN analysisData : analysisData[i].state \in {"UNKNOWN", "NONE"}
    /\ Len(Rendered.stateData) < Len(Rendered.stateMapData)
    /\ Rendered.stateData[1].total > Rendered.stateData[Len(Rendered.stateData)].total
    /\ \E y \in DOMAIN Rendered.yearlyByState :
           Cardinality(DOMAIN Rendered.yearlyByState[y].states) > 1

--------------------------------------------------------------------------
(* C30: useIndiaGeoJSON                                                     *)

\* loadData read an entry and JSON.parse accepts it
CacheParses == cached # None /\ cached[1].json

\* loadData read an entry and JSON.parse throws on it
CacheBroken == cached # None /\ ~cached[1].json

\* every mount of the hook gets to the end of loadData with loading = false,
\* provided the request settles (GeoLiveSpec)
GeoTerminates == (geoPc = "mounted") ~> (geoPc = "done" /\ ~geoLoading)

\* loadData has ended, with loading = false
GeoEndsNotLoading == geoPc = "done" => ~geoLoading

\* a parseable entry is used and nothing is requested
GeoCacheUsed ==
    geoPc # "mounted" /\ CacheParses =>
        /\ geoPc = "done"
        /\ ~geoFetched
        /\ geoData = cached[1].value
        /\ geoError = None

\* an entry that does not parse is removed and the request is issued
GeoBrokenCacheRemoved ==
    geoPc \in {"fetching", "parsing"} /\ CacheBroken => geoFetched /\ storage = None

\* a failed cache write leaves the load successful
GeoWriteFailureHarmless ==
    geoWriteFailed => geoPc = "done" /\ geoError = None /\ geoData # None /\ ~geoLoading

\* at the end exactly one of data and error is non-null
GeoExactlyOne == geoPc = "done" => ((geoData # None) # (geoError # None))

\* C30: the loader ends with loading = false and then exactly one of data and
\* error is non-null; a parseable cache entry is used and no request is issued;
\* a cache entry that cannot be parsed is removed and the request is issued; a
\* failed cache write never turns a successful load into an error.
C30_LoaderOutcome ==
    /\ GeoEndsNotLoading
    /\ GeoExactlyOne
    /\ GeoCacheUsed
    /\ GeoBrokenCacheRemoved
    /\ GeoWriteFailureHarmless

\* the cache held the JSON text null: it parsed, nothing was requested, and the
\* load ended with neither data nor an error
C30_Witness ==
    /\ geoPc = "done"
    /\ cached = Some(Stringify(None))
    /\ ~geoLoading
    /\ ~geoFetched
    /\ geoData = None
    /\ geoError = None

\* what holds of the loader for every cache content but the JSON null and the
\* empty string
GeoOutcomeButNullAndEmpty ==
    /\ GeoEndsNotLoading
    /\ cached # Some(Stringify(None)) => GeoExactlyOne
    /\ GeoCacheUsed
    /\ cached # Some(EmptyText) => GeoBrokenCacheRemoved
    /\ GeoWriteFailureHarmless

==========================================================================
